---- MODULE Spec2Model ----
(***************************************************************************)
(* A model of RokuNCParser (nc_parser.py): the line scanner of parse_file, *)
(* the two cycle extractors, the peck simulator _g83_to_ijk, the line      *)
(* rewriter update_g66_line and the spindle speed rewriter                 *)
(* update_spindle_speed.                                                   *)
(*                                                                         *)
(* Numbers.  A Python float is modelled as an exact decimal with seven     *)
(* fractional digits, held as an integer count of 1e-7 units, so that the  *)
(* 1e-6 tolerance of the source is 10 units and values on both sides of it *)
(* exist.  Magnitudes stay below 214 (the integers of TLC are              *)
(* 32 bit wide).                                                           *)
(*                                                                         *)
(* Text.  A line is a sequence of words.  A word is a letter followed by a *)
(* numeric literal, kept digit-faithful (sign, integer digits, fractional  *)
(* digits, a trailing dot, an exponent suffix), or a word without a number *)
(* (a comment, a percent sign).  The regular expressions of the source are *)
(* modelled by what they match on such words.                              *)
(***************************************************************************)
EXTENDS Integers, Sequences, FiniteSets, TLC

\* ------------------------------------------------------------------ numbers

\* 1.0 in model units (one unit is 1e-7).
One == 10000000

\* The tolerance 1e-6 of the source, in model units.
Tol == 10

\* Significant digits kept by the presentation type 'g' (its default
\* precision), used by fmt.
GPrecision == 6

Abs(x) == IF x < 0 THEN -x ELSE x

Min(a, b) == IF a < b THEN a ELSE b

Max(a, b) == IF a > b THEN a ELSE b

RECURSIVE Pow10(_)
Pow10(n) == IF n = 0 THEN 1 ELSE 10 * Pow10(n - 1)

\* Number of decimal digits of n >= 1.
RECURSIVE NDigits(_)
NDigits(n) == IF n < 10 THEN 1 ELSE 1 + NDigits(n \div 10)

\* Number of trailing decimal zeros of n >= 1.
RECURSIVE TrailingZeros(_)
TrailingZeros(n) == IF n % 10 # 0 THEN 0 ELSE 1 + TrailingZeros(n \div 10)

\* n rounded to a multiple of step, ties to even (correct rounding).
RoundTo(n, step) ==
    LET q == n \div step
        r == n % step
    IN  IF 2 * r > step \/ (2 * r = step /\ q % 2 = 1)
        THEN (q + 1) * step
        ELSE q * step

\* Optional values: None is the empty tuple, a number v is <<v>>.
None == <<>>

Some(v) == <<v>>

IsNone(o) == o = <<>>

Val(o) == o[1]

\* dict.get(key, default)
Get(d, k, default) == IF k \in DOMAIN d THEN d[k] ELSE default

\* ----------------------------------------------------------------- literals

\* A numeric literal: [neg] [ip] [. fp (fd digits)] [.] [e ex].
\* ip = -1 when the literal has no integer digits (".5"); ex = 0 when it has
\* no exponent suffix.
Lit(neg, ip, fp, fd) ==
    [neg |-> neg, ip |-> ip, fp |-> fp, fd |-> fd, dot |-> FALSE, ex |-> 0]

\* "12"
LInt(n) == Lit(FALSE, n, 0, 0)

\* "12." : integer digits and a trailing dot.
LDot(neg, n) == [Lit(neg, n, 0, 0) EXCEPT !.dot = TRUE]

\* The literal of a word that carries no number.
NoLit == [neg |-> FALSE, ip |-> -1, fp |-> 0, fd |-> 0, dot |-> FALSE, ex |-> 0]

HasNumber(l) == l.ip >= 0 \/ l.fd > 0

\* float() of the text the pattern [-+]?(?:\d*\.\d+|\d+) takes from a literal:
\* sign, integer digits and fractional digits; a trailing dot and an exponent
\* suffix are left outside the match.
LitValue(l) ==
    LET mag == (IF l.ip >= 0 THEN l.ip * One ELSE 0) + l.fp * Pow10(7 - l.fd)
    IN  IF l.neg THEN -mag ELSE mag

\* The digits \d+ directly after the letter (no sign between): the integer
\* digits of an unsigned literal.
HasLeadingDigits(l) == ~l.neg /\ l.ip >= 0

\* ---------------------------------------------------------------- fmt (:g)

\* f"{val:g}" of the value v (model units).  Six significant digits; fixed
\* notation when the decimal exponent X satisfies -4 <= X < 6, otherwise
\* exponent notation; trailing zeros (and a bare dot) are removed.
fmt(v) ==
    IF v = 0 THEN LInt(0)
    ELSE
    LET n  == Abs(v)
        d  == NDigits(n)
        nr == IF d > GPrecision THEN RoundTo(n, Pow10(d - GPrecision)) ELSE n
        dr == NDigits(nr)
    IN  IF dr - 8 < -4
        THEN \* exponent notation: d.ddd e-XX
             LET tz == TrailingZeros(nr)
                 m  == nr \div Pow10(tz)
                 md == NDigits(m)
             IN  [neg |-> v < 0,
                  ip  |-> m \div Pow10(md - 1),
                  fp  |-> m % Pow10(md - 1),
                  fd  |-> md - 1,
                  dot |-> FALSE,
                  ex  |-> dr - 8]
        ELSE \* fixed notation
             LET frac == nr % One
                 tz   == IF frac = 0 THEN 7 ELSE TrailingZeros(frac)
             IN  [neg |-> v < 0,
                  ip  |-> nr \div One,
                  fp  |-> frac \div Pow10(tz),
                  fd  |-> 7 - tz,
                  dot |-> FALSE,
                  ex  |-> 0]

\* -------------------------------------------------------------------- words

\* A word of a line: the letter k and its literal.  Words without a number
\* (comments, "%") carry NoLit.
W(k, l) == [k |-> k, lit |-> l]

\* 'G66' in line, 'G83' in line, 'P9131' in line: the text letter+digits
\* occurs in the line.
Contains(line, k, n) ==
    \E i \in 1..Len(line) :
        line[i].k = k /\ HasLeadingDigits(line[i].lit) /\ line[i].lit.ip = n

IsG66Line(line) == Contains(line, "G", 66)

\* re.findall(r'([<keys>])\s*([-+]?(?:\d*\.\d+|\d+))', line): the words
\* whose letter is one of keys and that carry a number, in line order.
IsKeyWord(w, keys) == w.k \in keys /\ HasNumber(w.lit)

\* Index of the first word of line satisfying letter k followed by digits
\* (re.search(r'<k>(\d+)', line)); 0 when there is none.
FirstDigitsWord(line, k) ==
    LET hits == {i \in 1..Len(line) :
                    line[i].k = k /\ HasLeadingDigits(line[i].lit)}
    IN  IF hits = {} THEN 0
        ELSE CHOOSE i \in hits : \A j \in hits : i <= j

\* ------------------------------------------------------------ peck simulator

IJKKeys == {"I", "J", "K"}

\* One entry of ijk_list.
Stage(i, j, k) == [I |-> i, J |-> j, K |-> k]

\* The state of the while loop of _g83_to_ijk before its first pass.
PeckStart(r_point, current_peck) ==
    [current_z |-> r_point, current_peck |-> current_peck,
     ijk_list |-> <<>>, done |-> FALSE]

\* The governing peck value: abs(I) in variable mode, abs(Q) in constant
\* mode (a missing key reads 0).
GoverningPeck(params, use_ijk_mode) ==
    IF use_ijk_mode THEN Abs(Val(Get(params, "I", Some(0))))
    ELSE Abs(Val(Get(params, "Q", Some(0))))

\* A faulty variant of IsDegenerate: a peck of exactly 1e-6 enters the loop.
IsDegenerate_Strict(current_peck) == current_peck < Tol

\* The early return of _g83_to_ijk: no loop when the peck is <= 1e-6.
IsDegenerate(current_peck) == current_peck <= Tol

\* A faulty variant of NoProgress: only a backward pass ends the loop.
NoProgress_OnlyBackward(depth_increment) == depth_increment < 0

\* The break on a pass that advances by less than 1e-6.
NoProgress(depth_increment) == depth_increment < Tol

\* The peck of the next pass in variable mode: reduced by |J|, floored at |K|.
NextPeck(current_peck, peck_reduction, min_peck) ==
    IF current_peck - peck_reduction < min_peck
    THEN min_peck
    ELSE current_peck - peck_reduction

\* A faulty variant of PeckPass: the next target is not clamped to Z.
PeckPass_NoClamp(r_point, z_bottom, use_ijk_mode, peck_reduction, min_peck, st) ==
    LET drilling_down == z_bottom < r_point
        next_z == IF drilling_down
                  THEN st.current_z - st.current_peck
                  ELSE st.current_z + st.current_peck
        depth_increment == Abs(next_z - st.current_z)
        finished == IF drilling_down THEN next_z <= z_bottom
                    ELSE next_z >= z_bottom
    IN  IF NoProgress(depth_increment)
        THEN [st EXCEPT !.done = TRUE]
        ELSE [current_z |-> next_z,
              current_peck |-> st.current_peck,
              ijk_list |-> Append(st.ijk_list,
                              Stage(IF drilling_down THEN -depth_increment
                                    ELSE depth_increment,
                                    r_point - next_z, 0)),
              done |-> finished]

\* One pass of the while loop of _g83_to_ijk.
PeckPass(r_point, z_bottom, use_ijk_mode, peck_reduction, min_peck, st) ==
    LET drilling_down == z_bottom < r_point
        next_z == IF drilling_down
                  THEN Max(st.current_z - st.current_peck, z_bottom)
                  ELSE Min(st.current_z + st.current_peck, z_bottom)
        depth_increment == IF drilling_down
                           THEN st.current_z - next_z
                           ELSE next_z - st.current_z
        i_vis == IF drilling_down THEN -depth_increment ELSE depth_increment
        j_vis == r_point - next_z
        finished == IF drilling_down THEN next_z <= z_bottom
                    ELSE next_z >= z_bottom
    IN  IF NoProgress(depth_increment)
        THEN [st EXCEPT !.done = TRUE]
        ELSE [current_z |-> next_z,
              current_peck |-> IF use_ijk_mode /\ ~finished
                               THEN NextPeck(st.current_peck, peck_reduction,
                                             min_peck)
                               ELSE st.current_peck,
              ijk_list |-> Append(st.ijk_list, Stage(i_vis, j_vis, 0)),
              done |-> finished]

\* The while loop run to its end.  (Here and in the loops below the loop
\* state is bound through a one-element set, which makes it a value before
\* the next pass reads it.)
RECURSIVE PeckLoop(_, _, _, _, _, _)
PeckLoop(r_point, z_bottom, use_ijk_mode, peck_reduction, min_peck, st0) ==
    CHOOSE r \in
        { IF st.done THEN st.ijk_list
          ELSE PeckLoop(r_point, z_bottom, use_ijk_mode, peck_reduction,
                        min_peck,
                        PeckPass(r_point, z_bottom, use_ijk_mode,
                                 peck_reduction, min_peck, st))
          : st \in {st0} } : TRUE

\* _g83_to_ijk(params, 'G83', use_ijk_mode) for params whose R and Z are
\* numbers (a None there raises TypeError, see _parse_fixed_cycle_line).
_g83_to_ijk(params, use_ijk_mode) ==
    LET r_point == Val(Get(params, "R", Some(0)))
        z_bottom == Val(Get(params, "Z", Some(0)))
        current_peck == GoverningPeck(params, use_ijk_mode)
    IN  IF IsDegenerate(current_peck) THEN <<>>
        ELSE PeckLoop(r_point, z_bottom, use_ijk_mode,
                      Abs(Val(Get(params, "J", Some(0)))),
                      Abs(Val(Get(params, "K", Some(0)))),
                      PeckStart(r_point, current_peck))

\* ------------------------------------------------------------- macro cycle

\* The value current_tool starts with ("Unknown"); tool ids are the digits
\* after T, held as numbers.
Unknown == -1

G66Keys == {"R", "Z", "S", "I", "J", "K", "T"}

G66StaticKeys == {"R", "Z", "S", "T"}

\* self.tool_diameters.get(tool_id, default): the map holds numbers.
DiaGet(diameters, tool_id, default) ==
    IF tool_id \in DOMAIN diameters THEN Some(diameters[tool_id]) ELSE default

\* _fill_missing_ijk: the keys I, J, K, 0.0 where the dict had none.
_fill_missing_ijk(ijk_dict) ==
    [k \in IJKKeys |-> IF k \in DOMAIN ijk_dict THEN ijk_dict[k] ELSE 0]

\* _is_zero_set: I, J and K are all within 1e-6 of zero.
_is_zero_set(ijk) ==
    /\ Abs(Get(ijk, "I", 0)) < Tol
    /\ Abs(Get(ijk, "J", 0)) < Tol
    /\ Abs(Get(ijk, "K", 0)) < Tol

\* A faulty variant of CloseTriple: every triple is appended.
CloseTriple_KeepAll(dynamic_params, temp_ijk) ==
    Append(dynamic_params, _fill_missing_ijk(temp_ijk))

\* Closing the in-progress triple: filled, and appended unless all-zero.
CloseTriple(dynamic_params, temp_ijk) ==
    IF _is_zero_set(_fill_missing_ijk(temp_ijk))
    THEN dynamic_params
    ELSE Append(dynamic_params, _fill_missing_ijk(temp_ijk))

\* One pass of the for loop of _parse_g66_line, on the match (key, val).
\* acc = [static_params, dynamic_params, temp_ijk].
G66Token(key, val, acc) ==
    IF key \in G66StaticKeys
    THEN [acc EXCEPT !.static_params =
             [acc.static_params EXCEPT ![key] = Some(val)]]
    ELSE IF key \in DOMAIN acc.temp_ijk
    THEN [acc EXCEPT
             !.dynamic_params = CloseTriple(acc.dynamic_params, acc.temp_ijk),
             !.temp_ijk = (key :> val)]
    ELSE [acc EXCEPT !.temp_ijk = (key :> val) @@ acc.temp_ijk]

RECURSIVE G66Tokens(_, _, _)
G66Tokens(matches, i, acc0) ==
    CHOOSE r \in
        { IF i > Len(matches) THEN acc
          ELSE G66Tokens(matches, i + 1,
                   G66Token(matches[i].k, LitValue(matches[i].lit), acc))
          : acc \in {acc0} } : TRUE

\* static_params and dynamic_params of _parse_g66_line(line).
G66Extract(line) ==
    LET matches == SelectSeq(line, LAMBDA w : IsKeyWord(w, G66Keys))
        acc == G66Tokens(matches, 1,
                   [static_params |-> [R |-> None, Z |-> None, S |-> None,
                                       T |-> None, F |-> None, Q |-> None],
                    dynamic_params |-> <<>>,
                    temp_ijk |-> <<>>])
    IN  [static_params |-> acc.static_params,
         dynamic_params |-> IF DOMAIN acc.temp_ijk # {}
                            THEN CloseTriple(acc.dynamic_params, acc.temp_ijk)
                            ELSE acc.dynamic_params]

\* The record _parse_g66_line appends to tools_data.
_parse_g66_line(line_index, line, tool_id, diameters, spindle_rpm, spindle_line) ==
    LET x == G66Extract(line)
    IN  [tool_id |-> tool_id,
         line_index |-> line_index,
         original_line |-> line,
         cycle_type |-> "G66",
         static_params |-> x.static_params,
         dynamic_params |-> x.dynamic_params,
         initial_static |-> x.static_params,
         initial_dynamic |-> x.dynamic_params,
         detected_diameter |-> DiaGet(diameters, tool_id, None),
         rpm |-> spindle_rpm,
         initial_rpm |-> spindle_rpm,
         rpm_line |-> spindle_line]

\* ------------------------------------------------------------- fixed cycle

G83Keys == {"R", "Z", "Q", "F", "X", "Y", "I", "J", "K"}

\* The loop "static_params[key] = val" over the matches from position i on.
RECURSIVE G83Tokens(_, _, _)
G83Tokens(matches, i, static_params0) ==
    CHOOSE r \in
        { IF i > Len(matches) THEN static_params
          ELSE G83Tokens(matches, i + 1,
                   (matches[i].k :> Some(LitValue(matches[i].lit)))
                       @@ static_params)
          : static_params \in {static_params0} } : TRUE

\* round(diameter * ratio, 3), ratio given in hundredths; diameters carry at
\* most four fractional digits.
RoundRatio(diameter, ratio100) ==
    RoundTo((diameter \div 1000) * ratio100, 1000) * 10

\* DrillingAnalysisEngine.get_default_ijk(diameter), mode 'efficient', no
\* config: the ratios 1.1, 0.12, 0.35.
get_default_ijk(diameter) ==
    IF diameter <= 1000
    THEN [I |-> 0, J |-> 0, K |-> 0]
    ELSE [I |-> RoundRatio(diameter, 110),
          J |-> RoundRatio(diameter, 12),
          K |-> RoundRatio(diameter, 35)]

\* abs(Z - R) of numbers.
Depth(sp) == Abs(Val(sp.Z) - Val(sp.R))

\* A faulty variant of DefaultQ: a third of the depth, without the cap.
DefaultQ_Uncapped(depth) == IF depth > 0 THEN depth \div 3 ELSE One

\* The synthesized Q: min(1.0, depth / 3.0) if depth > 0 else 1.0.
DefaultQ(depth) == IF depth > 0 THEN Min(One, depth \div 3) ELSE One

\* "Q is None or abs(Q) < 1e-6"
QMissing(sp) == IsNone(sp.Q) \/ Abs(Val(sp.Q)) < Tol

\* I, J, K synthesized from the hole depth when no diameter is known.
DepthIJK(depth) ==
    LET i == IF depth > 0 THEN Min(One \div 2, depth \div 3) ELSE One \div 2
    IN  [I |-> i, J |-> (i * 2) \div 10, K |-> (i * 5) \div 10]

\* Lines 151-191 of _parse_fixed_cycle_line: mode and default values, for
\* static parameters whose R and Z are numbers.
\* Yields [static_params, use_ijk_mode].
ResolveFixed(raw, tool_id, diameters) ==
    LET ijk0 == ~IsNone(raw.I) \/ ~IsNone(raw.K)
        s1 == [raw EXCEPT !.I = IF IsNone(raw.I) THEN Some(0) ELSE raw.I,
                          !.J = IF IsNone(raw.J) THEN Some(0) ELSE raw.J,
                          !.K = IF IsNone(raw.K) THEN Some(0) ELSE raw.K]
        s2 == IF ~ijk0 /\ QMissing(s1)
              THEN [s1 EXCEPT !.Q = Some(DefaultQ(Depth(s1)))]
              ELSE s1
        dia == DiaGet(diameters, tool_id, Some(0))
        d3 == IF Val(dia) > Tol THEN get_default_ijk(Val(dia))
              ELSE DepthIJK(Depth(s2))
        s3 == IF ijk0 /\ Abs(Val(s2.I)) < Tol
              THEN [s2 EXCEPT !.I = Some(d3.I), !.J = Some(d3.J),
                              !.K = Some(d3.K)]
              ELSE s2
        forceQ == ijk0 /\ Abs(Val(s3.I)) < Tol /\ Abs(Val(s3.K)) < Tol
        s4 == IF forceQ /\ QMissing(s3)
              THEN [s3 EXCEPT !.Q = Some(DefaultQ(Depth(s3)))]
              ELSE s3
    IN  [static_params |-> s4, use_ijk_mode |-> ijk0 /\ ~forceQ]

\* The raw static parameters of a fixed-cycle line: the preset keys at None,
\* then one assignment per match.
G83Raw(line) ==
    G83Tokens(SelectSeq(line, LAMBDA w : IsKeyWord(w, G83Keys)), 1,
              [R |-> None, Z |-> None, Q |-> None, F |-> None, P |-> None,
               I |-> None, J |-> None, K |-> None])

\* A None among R and Z makes _parse_fixed_cycle_line raise TypeError: the
\* subtraction of lines 164, 180, 190 or, at the latest, the comparison
\* z_bottom < r_point of line 231 has a None operand.
RaisesTypeError(raw) == IsNone(raw.R) \/ IsNone(raw.Z)

\* The record _parse_fixed_cycle_line appends to tools_data (R and Z numbers).
_parse_fixed_cycle_line(line_index, line, tool_id, diameters, spindle_rpm, spindle_line) ==
    LET x == ResolveFixed(G83Raw(line), tool_id, diameters)
        dyn == _g83_to_ijk(x.static_params, x.use_ijk_mode)
    IN  [tool_id |-> tool_id,
         line_index |-> line_index,
         original_line |-> line,
         cycle_type |-> "G83",
         use_ijk_mode |-> x.use_ijk_mode,
         initial_use_ijk_mode |-> x.use_ijk_mode,
         static_params |-> x.static_params,
         dynamic_params |-> dyn,
         initial_static |-> x.static_params,
         initial_dynamic |-> dyn,
         detected_diameter |-> DiaGet(diameters, tool_id, Some(0)),
         rpm |-> spindle_rpm,
         initial_rpm |-> spindle_rpm,
         rpm_line |-> spindle_line,
         original_xy |-> [X |-> Get(x.static_params, "X", None),
                          Y |-> Get(x.static_params, "Y", None)]]

\* ----------------------------------------------------------------- scanner

\* The window radius of _scan_for_diameter.
WindowRadius == 10

\* The first strictly positive value among the matches of D\s*(\d*\.?\d+)
\* in a line; None when there is none.
LineDiameter(line) ==
    LET hits == {i \in 1..Len(line) :
                    /\ line[i].k = "D"
                    /\ ~line[i].lit.neg
                    /\ HasNumber(line[i].lit)
                    /\ LitValue(line[i].lit) > 0}
    IN  IF hits = {} THEN None
        ELSE Some(LitValue(line[CHOOSE i \in hits : \A j \in hits : i <= j].lit))

\* A faulty variant of _scan_for_diameter: the window ends one line early.
_scan_for_diameter_EndsEarly(lines, current_line_idx) ==
    LET start == Max(0, current_line_idx - WindowRadius)
        end == Min(Len(lines), current_line_idx + WindowRadius)
        hits == {i \in start..(end - 1) : ~IsNone(LineDiameter(lines[i + 1]))}
    IN  IF hits = {} THEN None
        ELSE LineDiameter(lines[(CHOOSE i \in hits : \A j \in hits : i <= j) + 1])

\* _scan_for_diameter(current_line_idx, tool_id) over lines (indices from 0).
_scan_for_diameter(lines, current_line_idx) ==
    LET start == Max(0, current_line_idx - WindowRadius)
        end == Min(Len(lines), current_line_idx + WindowRadius + 1)
        hits == {i \in start..(end - 1) : ~IsNone(LineDiameter(lines[i + 1]))}
    IN  IF hits = {} THEN None
        ELSE LineDiameter(lines[(CHOOSE i \in hits : \A j \in hits : i <= j) + 1])

\* The state of the scan loop of parse_file before its first line.
ScanStart ==
    [tools_data |-> <<>>, tool_diameters |-> <<>>, current_tool |-> Unknown,
     current_spindle_rpm |-> 0, current_spindle_line |-> -1,
     raised |-> "none"]

\* A faulty variant of TrackSpindle: the S word of a G66 line counts too.
TrackSpindle_AnyLine(line, idx, st) ==
    LET s == FirstDigitsWord(line, "S")
    IN  IF s # 0
        THEN [st EXCEPT !.current_spindle_rpm = line[s].lit.ip,
                        !.current_spindle_line = idx]
        ELSE st

\* Lines 41-45: the spindle state after the line at idx.
TrackSpindle(line, idx, st) ==
    LET s == FirstDigitsWord(line, "S")
    IN  IF ~IsG66Line(line) /\ s # 0
        THEN [st EXCEPT !.current_spindle_rpm = line[s].lit.ip,
                        !.current_spindle_line = idx]
        ELSE st

\* Lines 48-54: the tool state after the line at idx.
TrackTool(lines, idx, st) ==
    LET t == FirstDigitsWord(lines[idx + 1], "T")
        found_id == lines[idx + 1][t].lit.ip
        dia == _scan_for_diameter(lines, idx)
    IN  IF t = 0 THEN st
        ELSE [st EXCEPT
                 !.tool_diameters =
                     IF IsNone(dia) THEN @ ELSE (found_id :> Val(dia)) @@ @,
                 !.current_tool = found_id]

\* A faulty variant of DetectCycle: a record is put at the head of the list.
DetectCycle_Prepends(line, idx, st) ==
    IF Contains(line, "G", 66) /\ Contains(line, "P", 9131)
    THEN [st EXCEPT !.tools_data =
              <<_parse_g66_line(idx, line, st.current_tool, st.tool_diameters,
                    st.current_spindle_rpm, st.current_spindle_line)>> \o @]
    ELSE IF Contains(line, "G", 83)
    THEN IF RaisesTypeError(G83Raw(line))
         THEN [st EXCEPT !.raised = "TypeError"]
         ELSE [st EXCEPT !.tools_data =
                  <<_parse_fixed_cycle_line(idx, line, st.current_tool,
                        st.tool_diameters, st.current_spindle_rpm,
                        st.current_spindle_line)>> \o @]
    ELSE st

\* Lines 57-60: the cycle detection on the line at idx.
DetectCycle(line, idx, st) ==
    IF Contains(line, "G", 66) /\ Contains(line, "P", 9131)
    THEN [st EXCEPT !.tools_data = Append(@,
              _parse_g66_line(idx, line, st.current_tool, st.tool_diameters,
                  st.current_spindle_rpm, st.current_spindle_line))]
    ELSE IF Contains(line, "G", 83)
    THEN IF RaisesTypeError(G83Raw(line))
         THEN [st EXCEPT !.raised = "TypeError"]
         ELSE [st EXCEPT !.tools_data = Append(@,
                  _parse_fixed_cycle_line(idx, line, st.current_tool,
                      st.tool_diameters, st.current_spindle_rpm,
                      st.current_spindle_line))]
    ELSE st

\* One pass of the for loop of parse_file, on the line at idx (from 0).
ScanLine(lines, idx, st) ==
    CHOOSE r \in
        { DetectCycle(lines[idx + 1], idx, t) :
            t \in { TrackTool(lines, idx, s) :
                       s \in {TrackSpindle(lines[idx + 1], idx, st)} } } : TRUE

\* The for loop of parse_file from idx on; an exception ends it.
RECURSIVE ScanFrom(_, _, _)
ScanFrom(lines, idx, st0) ==
    CHOOSE r \in
        { IF idx >= Len(lines) \/ st.raised # "none" THEN st
          ELSE ScanFrom(lines, idx + 1, ScanLine(lines, idx, st))
          : st \in {st0} } : TRUE

\* ---------------------------------------------------------------- rewriter

\* parts.append(f"{key}{fmt(value)}") guarded by "value is not None".
Part(key, o) == IF IsNone(o) THEN <<>> ELSE <<W(key, fmt(Val(o)))>>

\* The same, guarded by "value is not None and abs(value) > 1e-6".
PartNonZero(key, o) ==
    IF IsNone(o) \/ ~(Abs(Val(o)) > Tol) THEN <<>> ELSE <<W(key, fmt(Val(o)))>>

\* Lines 310-329: the rebuilt text of a fixed-cycle line.
G83Line(tool_data, new_static) ==
    <<W("G", LInt(83))>>
    \o Part("X", Get(Get(tool_data, "original_xy", <<>>), "X", None))
    \o Part("Y", Get(Get(tool_data, "original_xy", <<>>), "Y", None))
    \o Part("Z", Get(new_static, "Z", None))
    \o Part("R", Get(new_static, "R", None))
    \o (IF Get(tool_data, "use_ijk_mode", FALSE)
        THEN Part("I", Get(new_static, "I", None))
             \o Part("J", Get(new_static, "J", None))
             \o Part("K", Get(new_static, "K", None))
        ELSE Part("Q", Get(new_static, "Q", None)))
    \o Part("F", Get(new_static, "F", None))

\* A faulty variant of GroupParts: a value of exactly 1e-6 counts as
\* non-zero.
GroupParts_AtTolerance(group) ==
    LET i_val == Get(group, "I", 0)
        j_val == Get(group, "J", 0)
        k_val == Get(group, "K", 0)
    IN  IF Abs(i_val) >= Tol \/ Abs(j_val) >= Tol \/ Abs(k_val) >= Tol
        THEN <<W("I", fmt(i_val)), W("J", fmt(j_val)), W("K", fmt(k_val))>>
        ELSE <<>>

\* Lines 348-356: the words of one dynamic group, none when the group is
\* all within 1e-6 of zero.
GroupParts(group) ==
    LET i_val == Get(group, "I", 0)
        j_val == Get(group, "J", 0)
        k_val == Get(group, "K", 0)
    IN  IF Abs(i_val) > Tol \/ Abs(j_val) > Tol \/ Abs(k_val) > Tol
        THEN <<W("I", fmt(i_val)), W("J", fmt(j_val)), W("K", fmt(k_val))>>
        ELSE <<>>

RECURSIVE DynamicParts(_, _)
DynamicParts(new_dynamic_list, i) ==
    IF i > Len(new_dynamic_list) THEN <<>>
    ELSE GroupParts(new_dynamic_list[i]) \o DynamicParts(new_dynamic_list, i + 1)

\* Lines 331-356: the rebuilt text of a macro-cycle line.
G66Line(new_static, new_dynamic_list) ==
    <<W("G", LInt(66)), W("P", LInt(9131))>>
    \o Part("R", Get(new_static, "R", None))
    \o Part("Z", Get(new_static, "Z", None))
    \o PartNonZero("S", Get(new_static, "S", None))
    \o PartNonZero("T", Get(new_static, "T", None))
    \o DynamicParts(new_dynamic_list, 1)

\* The text update_g66_line builds for a record.
NewLine(tool_data, new_static, new_dynamic_list) ==
    IF Get(tool_data, "cycle_type", "G66") = "G83"
    THEN G83Line(tool_data, new_static)
    ELSE G66Line(new_static, new_dynamic_list)

\* "data_index < 0 or data_index >= len(self.tools_data)"
BadIndex(self, data_index) ==
    data_index < 0 \/ data_index >= Len(self.tools_data)

\* A faulty variant of TargetLine: the line after the cycle's line.
TargetLine_OffByOne(tool_data) == tool_data.line_index + 1

\* The line update_g66_line writes to (from 0).
TargetLine(tool_data) == tool_data.line_index

\* update_g66_line(data_index, new_static, new_dynamic_list) on the parser
\* state self = [nc_lines, tools_data, tool_diameters]; ret is its result.
update_g66_line(self, data_index, new_static, new_dynamic_list) ==
    IF BadIndex(self, data_index)
    THEN [self |-> self, ret |-> "False"]
    ELSE
    LET tool_data == self.tools_data[data_index + 1]
        new_line == NewLine(tool_data, new_static, new_dynamic_list)
    IN  [self |-> [self EXCEPT
                      !.nc_lines[TargetLine(tool_data) + 1] = new_line,
                      !.tools_data[data_index + 1] =
                          [tool_data EXCEPT !.static_params = new_static,
                                            !.dynamic_params = new_dynamic_list,
                                            !.original_line = new_line]],
         ret |-> "True"]

\* re.sub(r'S\d+', f'S{int(new_rpm)}', old_line, count=1): the digits of the
\* first S word that has digits are replaced; a line without one is kept.
SubSpindle(old_line, new_rpm) ==
    LET s == FirstDigitsWord(old_line, "S")
    IN  IF s = 0 THEN old_line
        ELSE [old_line EXCEPT ![s].lit.ip = new_rpm]

\* A faulty variant of RejectedRpm: zero is let through.
RejectedRpm_ZeroPasses(new_rpm) == new_rpm < 0

\* "new_rpm <= 0"
RejectedRpm(new_rpm) == new_rpm <= 0

\* "rpm_line < 0 or rpm_line >= len(self.nc_lines)"
NoRpmLine(self, rpm_line) == rpm_line < 0 \/ rpm_line >= Len(self.nc_lines)

\* update_spindle_speed(data_index, new_rpm) on the parser state self.
update_spindle_speed(self, data_index, new_rpm) ==
    IF BadIndex(self, data_index) THEN [self |-> self, ret |-> "False"]
    ELSE IF RejectedRpm(new_rpm) THEN [self |-> self, ret |-> "False"]
    ELSE
    LET tool_data == self.tools_data[data_index + 1]
        rpm_line == Get(tool_data, "rpm_line", -1)
    IN  IF NoRpmLine(self, rpm_line) THEN [self |-> self, ret |-> "False"]
        ELSE [self |-> [self EXCEPT
                          !.nc_lines[rpm_line + 1] = SubSpindle(@, new_rpm),
                          !.tools_data[data_index + 1].rpm = new_rpm],
              ret |-> "True"]

\* os.path.exists(file_path) on the file system fsys (path -> lines).
Exists(fsys, path) == path \in DOMAIN fsys

\* A faulty variant of AfterNotFound: the state is reset before the
\* existence check.
AfterNotFound_ResetFirst(self) ==
    [nc_lines |-> <<>>, tools_data |-> <<>>, tool_diameters |-> <<>>]

\* The parser state a parse_file call leaves when the path does not exist.
AfterNotFound(self) == self

\* The parser state parse_file starts its scan from: the lines of the file,
\* tools_data and tool_diameters reset (lines 26-32).
Loaded(self, lines) ==
    [nc_lines |-> lines, tools_data |-> <<>>, tool_diameters |-> <<>>]

\* parse_file(file_path) on the parser state self; ret is "ok" when it
\* returns tools_data, otherwise the exception it raises.
parse_file(self, fsys, path) ==
    IF ~Exists(fsys, path)
    THEN [self |-> AfterNotFound(self), ret |-> "FileNotFoundError"]
    ELSE
    LET start == Loaded(self, fsys[path])
        st == ScanFrom(start.nc_lines, 0,
                  [ScanStart EXCEPT !.tools_data = start.tools_data,
                                    !.tool_diameters = start.tool_diameters])
    IN  [self |-> [nc_lines |-> start.nc_lines,
                   tools_data |-> st.tools_data,
                   tool_diameters |-> st.tool_diameters],
         ret |-> IF st.raised = "none" THEN "ok" ELSE st.raised]

\* save_file(output_path): the lines written verbatim.
save_file(self, fsys, path) == (path :> self.nc_lines) @@ fsys

\* -------------------------------------------------------------------- state

VARIABLES
    fs,              \* the files on disk: path -> lines
    nc_lines,        \* self.nc_lines
    tools_data,      \* self.tools_data
    tool_diameters,  \* self.tool_diameters
    last_call,       \* the last call made and its result
    loaded,          \* history: nc_lines as the last parse_file read them
    edited,          \* history: data indexes edited since the last load
    probe            \* the state of the function-level specifications

vars == <<fs, nc_lines, tools_data, tool_diameters, last_call, loaded, edited,
          probe>>

\* The parser object as one record.
Self == [nc_lines |-> nc_lines, tools_data |-> tools_data,
         tool_diameters |-> tool_diameters]

Call(op, path, idx, rpm, ret) ==
    [op |-> op, path |-> path, idx |-> idx, rpm |-> rpm, ret |-> ret]

\* ----------------------------------------------------------------- programs

Dec(ip, fp, fd) == Lit(FALSE, ip, fp, fd)

Neg(ip, fp, fd) == Lit(TRUE, ip, fp, fd)

Comment == W("(", NoLit)

\* The sample of test_parser.py, with a tool diameter, a sequence number on
\* the macro line, and a fixed cycle that shares the spindle line.
ProgA ==
    << <<W("%", NoLit)>>,
       <<W("T", LInt(10)), W("M", LInt(6)), W("D", LDot(FALSE, 6))>>,
       <<W("G", LInt(0)), W("G", LInt(90)), W("G", LInt(54)),
         W("X", LInt(0)), W("Y", LInt(0)), W("M", LInt(3)),
         W("S", LInt(8000))>>,
       <<W("N", LInt(10)), W("G", LInt(66)), W("P", LInt(9131)),
         W("R", Neg(-1, 2, 1)), W("Z", Neg(2, 9, 1)),
         W("I", Neg(2, 9, 1)), W("J", Dec(-1, 45, 2)), W("K", LDot(FALSE, 100)),
         W("I", LDot(FALSE, 0)), W("J", LDot(FALSE, 0)), W("K", LDot(FALSE, 0)),
         W("I", Neg(1, 0, 1)), W("J", Dec(0, 2, 1)), W("K", LDot(FALSE, 50))>>,
       <<W("G", LInt(67))>>,
       <<W("N", LInt(20)), W("G", LInt(98)), W("G", LInt(83)),
         W("X", LDot(FALSE, 10)), W("Y", LDot(FALSE, 10)),
         W("Z", LDot(TRUE, 3)), W("R", LDot(FALSE, 0)), W("Q", LDot(FALSE, 1)),
         W("F", LInt(100)), W("M", LInt(8))>>,
       <<W("M", LInt(30))>> >>

\* A fixed cycle without an R word.
ProgB ==
    << <<W("T", LInt(2)), W("M", LInt(6)), W("D", Dec(3, 5, 1))>>,
       <<W("S", LInt(1200)), W("M", LInt(3))>>,
       <<W("G", LInt(83)), W("Z", LDot(TRUE, 3)), W("Q", LDot(FALSE, 1))>> >>

\* A fixed cycle before any spindle or tool word, and one that carries the
\* spindle word itself.
ProgC ==
    << <<W("G", LInt(83)), W("Z", LDot(TRUE, 2)), W("R", LDot(FALSE, 1)),
         W("Q", Dec(-1, 5, 1)), W("J", Dec(-1, 2, 1)), W("F", LInt(80))>>,
       <<W("T", LInt(3)), W("M", LInt(6)), W("D", LDot(FALSE, 2))>>,
       <<W("G", LInt(83)), W("Z", LDot(TRUE, 4)), W("R", LDot(FALSE, 0)),
         W("Q", LDot(FALSE, 0)), W("S", LInt(1200)), Comment>> >>

Disk == [a |-> ProgA, b |-> ProgB, c |-> ProgC]

\* The paths parse_file is called with; "missing" is not on the disk.
Paths == {"a", "b", "c", "missing"}

\* ------------------------------------------------------------------- inputs

\* Data indexes tried run from -1 to MaxIndex (no program has more than
\* MaxIndex records).
MaxIndex == 2

Indexes == -1..MaxIndex

\* new_static as test_parser.py passes it (R, Z, S only) and as the window
\* passes it (every spin box, Z with more than six significant digits).
StaticInputs ==
    { [R |-> Some(-5000000), Z |-> Some(-30000000), S |-> Some(500000)],
      [R |-> Some(5000000), Z |-> Some(-40699999), S |-> Some(0),
       T |-> Some(0), F |-> Some(100 * One), Q |-> Some(One),
       I |-> Some(5000000), J |-> Some(1000000), K |-> Some(2000000)] }

\* new_dynamic_list: empty, and the list of test_parser.py, which ends with
\* an all-zero group.
DynamicInputs ==
    { <<>>,
      <<Stage(-15000000, 1000000, 20 * One), Stage(0, 0, 0)>> }

RpmInputs == {0, 500, 9000}

\* -------------------------------------------------------------------- moves

Idle == [pc |-> "idle"]

Init ==
    /\ fs = Disk
    /\ nc_lines = <<>>
    /\ tools_data = <<>>
    /\ tool_diameters = <<>>
    /\ last_call = Call("init", "", -1, 0, "ok")
    /\ loaded = <<>>
    /\ edited = {}
    /\ probe = Idle

\* The parser state after a call, written to the variables.
Becomes(self) ==
    /\ nc_lines' = self.nc_lines
    /\ tools_data' = self.tools_data
    /\ tool_diameters' = self.tool_diameters

ParseFile(path) ==
    \E r \in {parse_file(Self, fs, path)} :
        /\ Becomes(r.self)
        /\ last_call' = Call("parse_file", path, -1, 0, r.ret)
        /\ loaded' = IF r.ret = "FileNotFoundError" THEN loaded ELSE r.self.nc_lines
        /\ edited' = IF r.ret = "FileNotFoundError" THEN edited ELSE {}
        /\ UNCHANGED <<fs, probe>>

UpdateG66Line(data_index, new_static, new_dynamic_list) ==
    \E r \in {update_g66_line(Self, data_index, new_static, new_dynamic_list)} :
        /\ Becomes(r.self)
        /\ last_call' = Call("update_g66_line", "", data_index, 0, r.ret)
        /\ edited' = IF r.ret = "True" THEN edited \cup {data_index} ELSE edited
        /\ UNCHANGED <<fs, loaded, probe>>

UpdateSpindleSpeed(data_index, new_rpm) ==
    \E r \in {update_spindle_speed(Self, data_index, new_rpm)} :
        /\ Becomes(r.self)
        /\ last_call' = Call("update_spindle_speed", "", data_index, new_rpm, r.ret)
        /\ edited' = IF r.ret = "True" THEN edited \cup {data_index} ELSE edited
        /\ UNCHANGED <<fs, loaded, probe>>

Next ==
    \/ \E path \in Paths : ParseFile(path)
    \/ \E i \in Indexes, ns \in StaticInputs, nd \in DynamicInputs :
           UpdateG66Line(i, ns, nd)
    \/ \E i \in Indexes, rpm \in RpmInputs : UpdateSpindleSpeed(i, rpm)

Spec == Init /\ [][Next]_vars

\* ------------------------------------------------------- claims on Spec

\* The set of words of a line.
Words(line) == {line[i] : i \in 1..Len(line)}

\* The letters update_g66_line writes for a cycle kind: its field list.
FieldLetters(cycle_type) ==
    IF cycle_type = "G83" THEN {"X", "Y", "Z", "R", "Q", "I", "J", "K", "F"}
    ELSE {"R", "Z", "S", "T", "I", "J", "K"}

\* C2 (as claimed): when update_g66_line rewrites a record's line, every
\* word of that line whose letter is not in the cycle's field list
\* (sequence number, other G and M words, comments) is still on the line.
C2_UntouchedWordsKept ==
    [][(last_call'.op = "update_g66_line" /\ last_call'.ret = "True") =>
          LET rec == tools_data[last_call'.idx + 1]
              li == rec.line_index + 1
          IN  \A w \in Words(nc_lines[li]) :
                  w.k \notin FieldLetters(rec.cycle_type)
                      => w \in Words(nc_lines'[li])]_vars

\* C7: update_spindle_speed returns False and changes no line and no
\* record's rpm when new_rpm <= 0, when the data index is out of range, or
\* when the record's rpm_line is negative or past the end of the text.
C7_RejectedSpindleUpdate ==
    [][LET i == last_call'.idx
           bad == i < 0 \/ i >= Len(tools_data)
       IN  (/\ last_call'.op = "update_spindle_speed"
            /\ \/ last_call'.rpm <= 0
               \/ bad
               \/ (~bad /\ (\/ tools_data[i + 1].rpm_line < 0
                            \/ tools_data[i + 1].rpm_line >= Len(nc_lines))))
           => /\ last_call'.ret = "False"
              /\ nc_lines' = nc_lines
              /\ Len(tools_data') = Len(tools_data)
              /\ \A j \in 1..Len(tools_data) :
                     tools_data'[j].rpm = tools_data[j].rpm]_vars

\* C7 witness: a rejected call with new_rpm = 0 on a record that has a
\* spindle line, the record keeping its non-zero rpm.
C7_Witness ==
    /\ last_call.op = "update_spindle_speed"
    /\ last_call.rpm = 0
    /\ last_call.ret = "False"
    /\ last_call.idx >= 0 /\ last_call.idx < Len(tools_data)
    /\ tools_data[last_call.idx + 1].rpm_line >= 0
    /\ tools_data[last_call.idx + 1].rpm > 0

\* The lines (from 0) an edit of the records in edited may have written.
EditedLines ==
    UNION {{tools_data[i + 1].line_index, tools_data[i + 1].rpm_line} :
              i \in edited}

\* C8: after any sequence of update_g66_line and update_spindle_speed calls
\* the number of lines is the number loaded, and every line that is neither
\* the line_index nor the rpm_line of an edited record has its loaded text.
C8_OtherLinesKept ==
    /\ Len(nc_lines) = Len(loaded)
    /\ \A i \in 0..(Len(nc_lines) - 1) :
           i \notin EditedLines => nc_lines[i + 1] = loaded[i + 1]

\* C8 witness: a cycle line and a spindle line have been rewritten, and
\* other lines exist.
C8_Witness ==
    /\ \E i \in edited : nc_lines[tools_data[i + 1].line_index + 1]
                            # loaded[tools_data[i + 1].line_index + 1]
    /\ \E i \in edited : /\ tools_data[i + 1].rpm_line >= 0
                         /\ tools_data[i + 1].rpm_line # tools_data[i + 1].line_index
                         /\ nc_lines[tools_data[i + 1].rpm_line + 1]
                                # loaded[tools_data[i + 1].rpm_line + 1]
    /\ Cardinality(EditedLines) < Len(nc_lines)

\* C9 (as claimed): parse_file on an existing file returns the record list
\* without raising, whatever the lines hold.
C9_ScanNeverRaises ==
    (last_call.op = "parse_file" /\ Exists(fs, last_call.path))
        => last_call.ret = "ok"

\* The tool ids of the T words of a text.
ToolIdsOf(lines) ==
    UNION {{w.lit.ip : w \in {v \in Words(lines[i]) :
                                  v.k = "T" /\ HasLeadingDigits(v.lit)}} :
              i \in 1..Len(lines)}

\* C10: parse_file on a missing path raises FileNotFoundError and leaves
\* the loaded lines, the diameter map and the record list as they were; a
\* parse_file that returns leaves only records and diameter entries of the
\* file just read (every record sits on a line of the new text and carries
\* that line, every diameter entry belongs to a tool of the new text and
\* holds a D value of the new text).
C10_NotFoundKeepsState ==
    [][last_call'.op = "parse_file" =>
          IF last_call'.path \notin DOMAIN fs
          THEN /\ last_call'.ret = "FileNotFoundError"
               /\ UNCHANGED <<nc_lines, tools_data, tool_diameters>>
          ELSE last_call'.ret = "ok" =>
               /\ nc_lines' = fs[last_call'.path]
               /\ \A j \in 1..Len(tools_data') :
                      /\ tools_data'[j].line_index < Len(nc_lines')
                      /\ tools_data'[j].original_line
                             = nc_lines'[tools_data'[j].line_index + 1]
               /\ DOMAIN tool_diameters' \subseteq ToolIdsOf(nc_lines')
               /\ \A t \in DOMAIN tool_diameters' :
                      \E i \in 1..Len(nc_lines') :
                          LineDiameter(nc_lines'[i]) = Some(tool_diameters'[t])]_vars

\* C10 witness: parse_file has just failed on the missing path while a
\* program with records and a diameter entry stays loaded.
C10_Witness ==
    /\ last_call.op = "parse_file"
    /\ last_call.ret = "FileNotFoundError"
    /\ tools_data # <<>>
    /\ DOMAIN tool_diameters # {}
    /\ nc_lines # <<>>

\* ------------------------------------------------ the peck simulator alone

\* The program variables, unused by the function-level specifications.
Parked ==
    /\ fs = Disk
    /\ nc_lines = <<>>
    /\ tools_data = <<>>
    /\ tool_diameters = <<>>
    /\ last_call = Call("init", "", -1, 0, "ok")
    /\ loaded = <<>>
    /\ edited = {}

StayParked ==
    UNCHANGED <<fs, nc_lines, tools_data, tool_diameters, last_call, loaded,
                edited>>

\* The most stages an input of SpecPeck may need: inputs whose governing
\* peck is above the tolerance keep |Z - R| <= MaxStages * peck.
MaxStages == 8

PeckR == {0, One}

\* -3, -3.0000005, 2.5, 1, and two depths of tolerance size.
PeckZ == {-3 * One, -30000005, 25000000, One, -7, -25}

\* 0, below, at and just above the tolerance, +-1, 0.7, 4.
PeckQ == {0, 5, -Tol, 11, One, -One, 7000000, 4 * One}

PeckI == {0, Tol, -One, 15000000}

PeckJ == {0, 2000000, 2 * One}

PeckK == {0, 5, 5000000}

PeckParams(r, z, q, i, j, k) ==
    [R |-> Some(r), Z |-> Some(z), Q |-> Some(q),
     I |-> Some(i), J |-> Some(j), K |-> Some(k)]

Feasible(params, use_ijk_mode) ==
    LET peck == IF use_ijk_mode THEN Abs(Val(params.I)) ELSE Abs(Val(params.Q))
    IN  peck <= Tol \/ Abs(Val(params.Z) - Val(params.R)) <= MaxStages * peck

PeckInputs ==
    { c \in
        {[params |-> PeckParams(r, z, q, 0, 0, 0), use_ijk_mode |-> FALSE] :
            r \in PeckR, z \in PeckZ, q \in PeckQ}
        \cup
        {[params |-> PeckParams(r, z, One, i, j, k), use_ijk_mode |-> TRUE] :
            r \in PeckR, z \in PeckZ, i \in PeckI, j \in PeckJ, k \in PeckK}
      : Feasible(c.params, c.use_ijk_mode) }

PeckInit ==
    /\ Parked
    /\ \E c \in PeckInputs :
           probe = [pc |-> "call", params |-> c.params,
                    use_ijk_mode |-> c.use_ijk_mode,
                    st |-> PeckStart(Val(c.params.R), 0), result |-> <<>>]

\* Lines 226-241: the mode selection and the early return.
PeckEnter ==
    /\ probe.pc = "call"
    /\ probe' =
         IF IsDegenerate(GoverningPeck(probe.params, probe.use_ijk_mode))
         THEN [probe EXCEPT !.pc = "done", !.result = <<>>]
         ELSE [probe EXCEPT
                  !.pc = "loop",
                  !.st = PeckStart(Val(probe.params.R),
                             GoverningPeck(probe.params, probe.use_ijk_mode))]
    /\ StayParked

\* Lines 243-277: one pass of the while loop.
PeckIterate ==
    /\ probe.pc = "loop"
    /\ ~probe.st.done
    /\ probe' = [probe EXCEPT !.st =
           PeckPass(Val(probe.params.R), Val(probe.params.Z),
                    probe.use_ijk_mode, Abs(Val(probe.params.J)),
                    Abs(Val(probe.params.K)), probe.st)]
    /\ StayParked

\* Line 279: return ijk_list.
PeckReturn ==
    /\ probe.pc = "loop"
    /\ probe.st.done
    /\ probe' = [probe EXCEPT !.pc = "done", !.result = probe.st.ijk_list]
    /\ StayParked

PeckNext == PeckEnter \/ PeckIterate \/ PeckReturn

SpecPeck == PeckInit /\ [][PeckNext]_vars

\* ceil(a / b) for a >= 0, b > 0.
Ceil(a, b) == (a + b - 1) \div b

RECURSIVE SumAbsI(_, _)
SumAbsI(list, i) ==
    IF i > Len(list) THEN 0 ELSE Abs(list[i].I) + SumAbsI(list, i + 1)

\* C5: in constant mode with |Q| > 1e-6 the loop produces at most
\* ceil(|Z-R| / |Q|) stages, every
\* stage's depth increment is at most |Q| in magnitude, and at the return
\* the increments sum to |Z-R| within 1e-6.
C5_ConstantPeckStages ==
    LET q == Abs(Val(probe.params.Q))
        depth == Abs(Val(probe.params.Z) - Val(probe.params.R))
        list == probe.st.ijk_list
    IN  (probe.pc \in {"loop", "done"} /\ ~probe.use_ijk_mode /\ q > Tol) =>
            /\ Len(list) <= Ceil(depth, q)
            /\ \A n \in 1..Len(list) : Abs(list[n].I) <= q
            /\ probe.pc = "done" =>
                   /\ probe.result = list
                   /\ Abs(SumAbsI(probe.result, 1) - depth) <= Tol

\* C5 witness: R = 0, Z = -3, Q = 1 has returned three stages of -1.0, the
\* last at depth 3.
C5_Witness ==
    /\ probe.pc = "done"
    /\ ~probe.use_ijk_mode
    /\ probe.params.R = Some(0)
    /\ probe.params.Z = Some(-3 * One)
    /\ probe.params.Q = Some(One)
    /\ probe.result = <<Stage(-One, One, 0), Stage(-One, 2 * One, 0),
                        Stage(-One, 3 * One, 0)>>

\* C6: when the governing peck (|Q| in constant mode, |I| in variable mode)
\* is at most 1e-6, _g83_to_ijk never enters the loop and returns the empty
\* list, whatever R, Z, J and K are.
C6_DegenerateIsEmpty ==
    LET peck == IF probe.use_ijk_mode THEN Abs(Val(probe.params.I))
                ELSE Abs(Val(probe.params.Q))
    IN  peck <= Tol =>
            /\ probe.pc # "loop"
            /\ probe.pc = "done" => probe.result = <<>>

\* C6 witness: a returned call in variable mode with |I| exactly 1e-6, a
\* hole of depth 3 and non-zero J and K.
C6_Witness ==
    /\ probe.pc = "done"
    /\ probe.use_ijk_mode
    /\ Abs(Val(probe.params.I)) = Tol
    /\ Abs(Val(probe.params.Z) - Val(probe.params.R)) = 3 * One
    /\ Val(probe.params.J) # 0
    /\ Val(probe.params.K) # 0
    /\ probe.result = <<>>

\* --------------------------------------------------- the extraction alone

\* The most I/J/K triples on a macro line of SpecExtract.
MaxTriples == 3

\* I-2.9 J.45 K100.
TripleA ==
    <<W("I", Neg(2, 9, 1)), W("J", Dec(-1, 45, 2)), W("K", LDot(FALSE, 100))>>

\* I-1.0 J0.2 K50.
TripleB ==
    <<W("I", Neg(1, 0, 1)), W("J", Dec(0, 2, 1)), W("K", LDot(FALSE, 50))>>

\* I0. J0. K0.
TripleZero ==
    <<W("I", LDot(FALSE, 0)), W("J", LDot(FALSE, 0)), W("K", LDot(FALSE, 0))>>

\* I.0000005 J0 K0 : every value below the tolerance.
TripleBelowTol ==
    <<W("I", Dec(-1, 5, 7)), W("J", LInt(0)), W("K", LInt(0))>>

\* I0 J.000001 K0 : one value exactly at the tolerance.
TripleAtTol ==
    <<W("I", LInt(0)), W("J", Dec(-1, 1, 6)), W("K", LInt(0))>>

\* K20 J.1 I-1.5 : the letters in another order.
TripleKJI ==
    <<W("K", LInt(20)), W("J", Dec(-1, 1, 1)), W("I", Neg(1, 5, 1))>>

Triples ==
    {TripleA, TripleB, TripleZero, TripleBelowTol, TripleAtTol, TripleKJI}

TripleSeqs == UNION {[1..n -> Triples] : n \in 0..MaxTriples}

RECURSIVE Flatten(_, _)
Flatten(ts, i) == IF i > Len(ts) THEN <<>> ELSE ts[i] \o Flatten(ts, i + 1)

\* G66 P9131 R-.2 Z-2.9 followed by the triples.
MacroLine(ts) ==
    <<W("G", LInt(66)), W("P", LInt(9131)), W("R", Neg(-1, 2, 1)),
      W("Z", Neg(2, 9, 1))>> \o Flatten(ts, 1)

ExtractInit ==
    /\ Parked
    /\ \E ts \in TripleSeqs :
           probe = [pc |-> "line", triples |-> ts, line |-> MacroLine(ts),
                    rec |-> <<>>]

\* _parse_g66_line on the line, with no tool and no spindle line seen.
ExtractLine ==
    /\ probe.pc = "line"
    /\ probe' = [probe EXCEPT
                    !.pc = "parsed",
                    !.rec = _parse_g66_line(0, probe.line, Unknown, <<>>, 0, -1)]
    /\ StayParked

ExtractNext == ExtractLine

SpecExtract == ExtractInit /\ [][ExtractNext]_vars

\* The values a written triple carries, by letter.
TripleValue(t) ==
    [k \in {"I", "J", "K"} |->
        LitValue(t[CHOOSE n \in 1..Len(t) : t[n].k = k].lit)]

\* All-zero, by the tolerance the specification sets for every comparison
\* with zero: each magnitude below 1e-6.
AllZero(v) == Abs(v.I) < Tol /\ Abs(v.J) < Tol /\ Abs(v.K) < Tol

\* The written triples that are not all-zero, in source order, as values.
NonZeroTriples(ts) ==
    LET kept == SelectSeq(ts, LAMBDA t : ~AllZero(TripleValue(t)))
    IN  [n \in 1..Len(kept) |-> TripleValue(kept[n])]

C4_WrittenZeroTripleKept ==
    (/\ probe.pc = "parsed"
     /\ Len(probe.triples) = 3
     /\ probe.triples[2] = TripleZero
     /\ ~AllZero(TripleValue(probe.triples[1]))
     /\ ~AllZero(TripleValue(probe.triples[3])))
    => /\ Len(probe.rec.dynamic_params) = 3
       /\ probe.rec.dynamic_params[2] = Stage(0, 0, 0)

\* ------------------------------------------------------------ round trip

\* The Z words of the round-trip lines: Z-2.9, Z-12.34567 (seven
\* significant digits), Z-.00005 (below 1e-4).
RTDepths == {Neg(2, 9, 1), Neg(12, 34567, 5), Neg(-1, 5, 5)}

\* Nothing, S0, S.05
RTFeeds == {<<>>, <<W("S", LInt(0))>>, <<W("S", Dec(-1, 5, 2))>>}

\* Nothing, T.2
RTDwells == {<<>>, <<W("T", Dec(-1, 2, 1))>>}

RTTriples == {<<>>, <<TripleA>>, <<TripleA, TripleZero, TripleB>>,
              <<TripleAtTol, TripleB>>}

\* G66 P9131 R-.2 Z.. [S..] [T..] triples
RTMacroLines ==
    {<<W("G", LInt(66)), W("P", LInt(9131)), W("R", Neg(-1, 2, 1)), W("Z", z)>>
        \o s \o t \o Flatten(ts, 1) :
        z \in RTDepths, s \in RTFeeds, t \in RTDwells, ts \in RTTriples}

\* Q1. / Q.5 J.2 / I1.5 J.2 K.5 / I1. J.2 K.5 Q1.
RTPecks ==
    {<<W("Q", LDot(FALSE, 1))>>,
     <<W("Q", Dec(-1, 5, 1)), W("J", Dec(-1, 2, 1))>>,
     <<W("I", Dec(1, 5, 1)), W("J", Dec(-1, 2, 1)), W("K", Dec(-1, 5, 1))>>,
     <<W("I", LDot(FALSE, 1)), W("J", Dec(-1, 2, 1)), W("K", Dec(-1, 5, 1)),
       W("Q", LDot(FALSE, 1))>>}

\* G83 X10. Y10. Z.. R0. peck [F100]
RTFixedLines ==
    {<<W("G", LInt(83)), W("X", LDot(FALSE, 10)), W("Y", LDot(FALSE, 10)),
       W("Z", z), W("R", LDot(FALSE, 0))>> \o q \o f :
        z \in RTDepths, q \in RTPecks, f \in {<<>>, <<W("F", LInt(100))>>}}

RTPath == "rt"

RTInit ==
    /\ \E line \in RTMacroLines \cup RTFixedLines :
           /\ fs = [rt |-> <<line>>]
           /\ probe = [pc |-> "file", first |-> <<>>, second |-> <<>>]
    /\ nc_lines = <<>>
    /\ tools_data = <<>>
    /\ tool_diameters = <<>>
    /\ last_call = Call("init", "", -1, 0, "ok")
    /\ loaded = <<>>
    /\ edited = {}

\* What the round trip compares of a record.
Params(tool_data) ==
    [static_params |-> tool_data.static_params,
     dynamic_params |-> tool_data.dynamic_params]

\* parse_file, on the file as written and later on the rewritten text.
RTParseFile ==
    /\ probe.pc \in {"file", "saved"}
    /\ \E r \in {parse_file(Self, fs, RTPath)} :
           /\ Becomes(r.self)
           /\ last_call' = Call("parse_file", RTPath, -1, 0, r.ret)
           /\ loaded' = r.self.nc_lines
           /\ probe' = IF probe.pc = "file"
                       THEN [probe EXCEPT !.pc = "parsed",
                                !.first = Params(r.self.tools_data[1])]
                       ELSE [probe EXCEPT !.pc = "done",
                                !.second = Params(r.self.tools_data[1])]
    /\ edited' = {}
    /\ UNCHANGED fs

\* update_g66_line with the record's own parameters.
RTRewrite ==
    /\ probe.pc = "parsed"
    /\ \E r \in {update_g66_line(Self, 0, tools_data[1].static_params,
                                 tools_data[1].dynamic_params)} :
           /\ Becomes(r.self)
           /\ last_call' = Call("update_g66_line", "", 0, 0, r.ret)
    /\ edited' = {0}
    /\ probe' = [probe EXCEPT !.pc = "rewritten"]
    /\ UNCHANGED <<fs, loaded>>

\* save_file over the same path.
RTSave ==
    /\ probe.pc = "rewritten"
    /\ fs' = save_file(Self, fs, RTPath)
    /\ last_call' = Call("save_file", RTPath, -1, 0, "ok")
    /\ probe' = [probe EXCEPT !.pc = "saved"]
    /\ UNCHANGED <<nc_lines, tools_data, tool_diameters, loaded, edited>>

RTNext == RTParseFile \/ RTRewrite \/ RTSave

SpecRT == RTInit /\ [][RTNext]_vars

\* Same presence or absence, and values equal within 1e-6.
SameValue(a, b) ==
    /\ IsNone(a) <=> IsNone(b)
    /\ ~IsNone(a) => Abs(Val(a) - Val(b)) <= Tol

SameStatic(a, b) ==
    \A k \in DOMAIN a \cup DOMAIN b :
        SameValue(Get(a, k, None), Get(b, k, None))

SameDynamic(a, b) ==
    /\ Len(a) = Len(b)
    /\ \A n \in 1..Len(a) :
           \A k \in {"I", "J", "K"} : Abs(a[n][k] - b[n][k]) <= Tol

\* C1: parsing a cycle line, rewriting it with the just-parsed parameters
\* unchanged and parsing the rewritten text yields the same static
\* parameters (same presence, values within 1e-6) and the same dynamic
\* parameter list.
C1_RoundTrip ==
    probe.pc = "done" =>
        /\ SameStatic(probe.first.static_params, probe.second.static_params)
        /\ SameDynamic(probe.first.dynamic_params, probe.second.dynamic_params)

\* ------------------------------------------------------- time estimation

\* Distances of the time estimate are held in tenths of a millimetre (the
\* stage lists used below are multiples of 0.1), speeds in mm/min.
Tenths(v) == v \div (One \div 10)

\* clearance=0.1, in tenths.
Clearance == 1

\* float('inf'), and a finite time as the fraction num / den.
Infinite == [inf |-> TRUE, num |-> 0, den |-> 1]

RECURSIVE Gcd(_, _)
Gcd(a, b) == IF b = 0 THEN a ELSE Gcd(b, a % b)

\* The fraction num / den (den > 0) in lowest terms.
Reduced(num, den) ==
    LET g == Gcd(Abs(num), den)
    IN  [num |-> num \div g, den |-> den \div g]

Finite(num, den) ==
    [inf |-> FALSE, num |-> Reduced(num, den).num, den |-> Reduced(num, den).den]

\* "if feedrate <= 0: return float('inf')"
NoFeed(feedrate) == feedrate <= 0

\* The body of the for loop of calc_drilling_time on stage idx (from 0):
\* the feed distance and the rapid distance travelled so far.  Both modes
\* run the same arithmetic.
TimeStage(peck, idx, r_point, acc) ==
    LET increment == Tenths(Get(peck, "I", 0))
        prev_z == acc.current_z
        target_z == prev_z + increment
        feed_dist == IF idx = 0 THEN Abs(target_z - r_point)
                     ELSE Abs(target_z - (prev_z + Clearance))
        dist_g0_down == IF idx = 0 THEN 0
                        ELSE Abs(r_point - (prev_z + Clearance))
        dist_g0_up == Abs(target_z - r_point)
    IN  [feed |-> acc.feed + feed_dist,
         rapid |-> acc.rapid + dist_g0_down + dist_g0_up,
         current_z |-> target_z]

RECURSIVE TimeLoop(_, _, _, _)
TimeLoop(ijk_list, idx, r_point, acc0) ==
    CHOOSE r \in
        { IF idx >= Len(ijk_list) THEN acc
          ELSE TimeLoop(ijk_list, idx + 1, r_point,
                        TimeStage(ijk_list[idx + 1], idx, r_point, acc))
          : acc \in {acc0} } : TRUE

\* calc_drilling_time: feed / feedrate + rapid / g0_speed as one fraction.
calc_drilling_time(ijk_list, feedrate, r_point, g0_speed, is_ijk_mode) ==
    IF NoFeed(feedrate) THEN Infinite
    ELSE LET acc == TimeLoop(ijk_list, 0, Tenths(r_point),
                        [feed |-> 0, rapid |-> 0, current_z |-> Tenths(r_point)])
         IN  Finite(acc.feed * g0_speed + acc.rapid * feedrate,
                    feedrate * g0_speed)

\* A faulty variant of Comparable: an infinite current time is let through.
Comparable_IgnoresCurrent(init_t, curr_t) ==
    ~init_t.inf /\ init_t.num > 0

\* "init_t > 0 and init_t != float('inf') and curr_t != float('inf')"
Comparable(init_t, curr_t) ==
    ~init_t.inf /\ init_t.num > 0 /\ ~curr_t.inf

\* (init_t - curr_t) / init_t * 100 as the fraction 100 * num / den.
SavePct(init_t, curr_t) ==
    Reduced(init_t.num * curr_t.den - curr_t.num * init_t.den,
            init_t.num * curr_t.den)

\* save_pct = 0.0
ZeroPct == [num |-> 0, den |-> 1]

\* compare_efficiency(current_params, initial_params, g0_speed)
compare_efficiency(current_params, initial_params, g0_speed) ==
    LET curr_t == calc_drilling_time(current_params.ijk_list,
                      current_params.feedrate, current_params.r_point,
                      g0_speed, current_params.is_ijk_mode)
        init_t == calc_drilling_time(initial_params.ijk_list,
                      initial_params.feedrate, initial_params.r_point,
                      g0_speed, initial_params.is_ijk_mode)
    IN  [save_pct |-> IF Comparable(init_t, curr_t)
                      THEN SavePct(init_t, curr_t) ELSE ZeroPct,
         init_pecks |-> Len(initial_params.ijk_list),
         curr_pecks |-> Len(current_params.ijk_list),
         init_time |-> init_t,
         curr_time |-> curr_t]

\* No stage; three pecks of 1.0; pecks of 1.5, 1.3, 0.2; one peck upwards.
TimeLists ==
    {<<>>,
     <<Stage(-One, One, 0), Stage(-One, 2 * One, 0), Stage(-One, 3 * One, 0)>>,
     <<Stage(-15000000, 15000000, 0), Stage(-13000000, 28000000, 0),
       Stage(-2000000, 3 * One, 0)>>,
     <<Stage(25000000, -25000000, 0)>>}

TimeFeeds == {-50, 0, 50, 100}

\* The range of the G0 speed box is 100 to 40000, its default 5000.
TimeRapids == {100, 5000}

TimeParams ==
    [ijk_list : TimeLists, feedrate : TimeFeeds, r_point : {0, 5000000},
     is_ijk_mode : BOOLEAN]

TimeInit ==
    /\ Parked
    /\ \E c \in TimeParams, i \in TimeParams, g \in TimeRapids :
           /\ c.is_ijk_mode = i.is_ijk_mode
           /\ probe = [pc |-> "args", current |-> c, initial |-> i,
                       g0_speed |-> g, time |-> Infinite,
                       result |-> <<>>]

\* calc_drilling_time on the current parameters.
CalcDrillingTime ==
    /\ probe.pc = "args"
    /\ probe' = [probe EXCEPT
                    !.pc = "timed",
                    !.time = calc_drilling_time(probe.current.ijk_list,
                                 probe.current.feedrate, probe.current.r_point,
                                 probe.g0_speed, probe.current.is_ijk_mode)]
    /\ StayParked

\* compare_efficiency on the two parameter sets.
CompareEfficiency ==
    /\ probe.pc = "args"
    /\ probe' = [probe EXCEPT
                    !.pc = "compared",
                    !.result = compare_efficiency(probe.current, probe.initial,
                                                  probe.g0_speed)]
    /\ StayParked

TimeNext == CalcDrillingTime \/ CompareEfficiency

SpecTime == TimeInit /\ [][TimeNext]_vars

\* C11: calc_drilling_time returns an infinite time whenever feedrate <= 0,
\* whatever the stage list; compare_efficiency reports a percent saved of
\* exactly 0 whenever either time is infinite or the initial time is <= 0,
\* and (initial - current) / initial * 100 otherwise.
C11_NoFeedIsInfinite ==
    /\ (probe.pc = "timed" /\ probe.current.feedrate <= 0) => probe.time.inf
    /\ probe.pc = "compared" =>
           LET r == probe.result
               init_t == r.init_time
               curr_t == r.curr_time
           IN  /\ probe.initial.feedrate <= 0 => init_t.inf
               /\ probe.current.feedrate <= 0 => curr_t.inf
               /\ IF init_t.inf \/ curr_t.inf \/ init_t.num <= 0
                  THEN r.save_pct.num = 0
                  ELSE \* save_pct / 100 = (init - curr) / init = a / b
                       LET a == init_t.num * curr_t.den - curr_t.num * init_t.den
                           b == init_t.num * curr_t.den
                           k == b \div r.save_pct.den
                       IN  b = k * r.save_pct.den /\ a = k * r.save_pct.num

\* C11 witness: a comparison whose current feedrate is 0 while the initial
\* parameters give a finite positive time, reported as 0 percent.
C11_Witness ==
    /\ probe.pc = "compared"
    /\ probe.current.feedrate = 0
    /\ probe.current.ijk_list # <<>>
    /\ probe.result.curr_time.inf
    /\ ~probe.result.init_time.inf
    /\ probe.result.init_time.num > 0
    /\ probe.result.save_pct.num = 0

\* ------------------------------------------------------ strategy selection

\* The DRI is held in hundredths.
Dri(n) == 100 * n

\* A faulty variant of select_strategy: each boundary falls in the lower tier.
select_strategy_BoundaryLow(dri) ==
    IF dri <= Dri(6) THEN "DIRECT"
    ELSE IF dri <= Dri(18) THEN "Q_MODE"
    ELSE IF dri <= Dri(40) THEN "IJK_DYNAMIC"
    ELSE "DEEP_PROTECT"

\* select_strategy(dri)
select_strategy(dri) ==
    IF dri < Dri(6) THEN "DIRECT"
    ELSE IF dri < Dri(18) THEN "Q_MODE"
    ELSE IF dri < Dri(40) THEN "IJK_DYNAMIC"
    ELSE "DEEP_PROTECT"

\* The largest DRI of the half-unit grid of SpecStrategy.
MaxDri == 45

\* What calculate_dri returns for a diameter <= 0.
NoDiameterDri == 999

\* A grid of half units from -1 to MaxDri, the values one hundredth on each
\* side of the thresholds, and 999.
DriValues ==
    {50 * n : n \in -2..(2 * MaxDri)}
    \cup {Dri(t) + e : t \in {6, 18, 40}, e \in {-1, 1}}
    \cup {Dri(NoDiameterDri)}

StrategyInit ==
    /\ Parked
    /\ \E d \in DriValues : probe = [pc |-> "dri", dri |-> d, strategy |-> ""]

SelectStrategy ==
    /\ probe.pc = "dri"
    /\ probe' = [probe EXCEPT !.pc = "selected",
                              !.strategy = select_strategy(probe.dri)]
    /\ StayParked

StrategyNext == SelectStrategy

SpecStrategy == StrategyInit /\ [][StrategyNext]_vars

\* C12: select_strategy gives Direct for DRI < 6, ConstantPeck for
\* 6 <= DRI < 18, VariableDecayPeck for 18 <= DRI < 40 and DeepProtect for
\* DRI >= 40: one strategy for every DRI, each of 6, 18, 40 in the higher
\* tier.
C12_StrategyPartition ==
    probe.pc = "selected" =>
        /\ probe.strategy \in {"DIRECT", "Q_MODE", "IJK_DYNAMIC", "DEEP_PROTECT"}
        /\ probe.strategy = "DIRECT" <=> probe.dri < 600
        /\ probe.strategy = "Q_MODE" <=> (600 <= probe.dri /\ probe.dri < 1800)
        /\ probe.strategy = "IJK_DYNAMIC"
               <=> (1800 <= probe.dri /\ probe.dri < 4000)
        /\ probe.strategy = "DEEP_PROTECT" <=> 4000 <= probe.dri

\* C12 witness: the boundary value 18 has been given the variable-decay
\* strategy.
C12_Witness ==
    /\ probe.pc = "selected"
    /\ probe.dri = 1800
    /\ probe.strategy = "IJK_DYNAMIC"

\* ------------------------------------------------ more claims on Spec

\* C13 (as claimed): in every reachable state no macro-cycle record's
\* dynamic_params holds a triple whose I, J and K are all within 1e-6 of
\* zero, after parse_file and after any update_g66_line.
C13_NoZeroTripleStored ==
    \A j \in 1..Len(tools_data) :
        tools_data[j].cycle_type = "G66" =>
            \A n \in 1..Len(tools_data[j].dynamic_params) :
                LET g == tools_data[j].dynamic_params[n]
                IN  ~(Abs(g.I) < Tol /\ Abs(g.J) < Tol /\ Abs(g.K) < Tol)

\* ------------------------------------------------------------ generate_html

\* context_lines=10
ContextLines == 10

\* str(x) of a float, as f"X{xy['X']}" prints it: at least one fractional
\* digit in fixed notation, exponent notation below 1e-4.
Str(v) ==
    IF v = 0 THEN Lit(FALSE, 0, 0, 1)
    ELSE IF Abs(v) < One \div 10000 THEN fmt(v)
    ELSE IF Abs(v) % One = 0 THEN Lit(v < 0, Abs(v) \div One, 0, 1)
    ELSE Lit(v < 0, Abs(v) \div One,
             (Abs(v) % One) \div Pow10(TrailingZeros(Abs(v) % One)),
             7 - TrailingZeros(Abs(v) % One))

\* One piece of the active line: a word and whether it is shown in red.
Shown(k, l, red) == [k |-> k, lit |-> l, red |-> red]

\* format_val(key, curr_dict, init_dict) on optional values: nothing for a
\* None, red when the initial value is None or differs by more than 1e-6,
\* and for S when the spindle line is the active line and the rpm changed.
format_val(key, val, init_val, rpm_on_line) ==
    IF IsNone(val) THEN <<>>
    ELSE <<Shown(key, fmt(Val(val)),
                 \/ IsNone(init_val)
                 \/ Abs(Val(val) - Val(init_val)) > Tol
                 \/ (key = "S" /\ rpm_on_line))>>

\* The pieces of one dynamic group, compared with the initial group at the
\* same position ({} when the initial list is shorter).
GroupShown(group, init_group) ==
    IF \E k \in IJKKeys : Abs(Get(group, k, 0)) > Tol
    THEN format_val("I", Some(group.I), Get(init_group, "I", None) , FALSE) \o
         format_val("J", Some(group.J), Get(init_group, "J", None), FALSE) \o
         format_val("K", Some(group.K), Get(init_group, "K", None), FALSE)
    ELSE <<>>

\* dict.get(key) of a group gives a number; the comparison wants an option.
InitGroup(initial_dynamic, i) ==
    IF i <= Len(initial_dynamic)
    THEN [k \in IJKKeys |-> Some(initial_dynamic[i][k])]
    ELSE <<>>

RECURSIVE GroupsShown(_, _, _)
GroupsShown(current_dynamic, initial_dynamic, i) ==
    IF i > Len(current_dynamic) THEN <<>>
    ELSE GroupShown(current_dynamic[i], InitGroup(initial_dynamic, i))
         \o GroupsShown(current_dynamic, initial_dynamic, i + 1)

\* "(current_rpm != initial_rpm) and (initial_rpm != 0)"
IsRpmModified(tool_data) ==
    tool_data.rpm # tool_data.initial_rpm /\ tool_data.initial_rpm # 0

\* The active line of generate_html for a record.
ActiveParts(tool_data) ==
    LET cur == tool_data.static_params
        ini == tool_data.initial_static
        hit == IsRpmModified(tool_data)
                   /\ tool_data.line_index = tool_data.rpm_line
        F(key) == format_val(key, Get(cur, key, None), Get(ini, key, None), hit)
        xy == Get(tool_data, "original_xy", <<>>)
        XY(key) == IF IsNone(Get(xy, key, None)) THEN <<>>
                   ELSE <<Shown(key, Str(Val(xy[key])), FALSE)>>
        nonzero(key) ==
            ~IsNone(Get(cur, key, None)) /\ Abs(Val(cur[key])) > Tol
    IN  IF Get(tool_data, "cycle_type", "G66") = "G83"
        THEN <<Shown("G", LInt(83), FALSE)>> \o XY("X") \o XY("Y")
             \o F("Z") \o F("R")
             \o (IF Get(tool_data, "use_ijk_mode", FALSE)
                 THEN F("I") \o F("J") \o F("K") ELSE F("Q"))
             \o F("F")
        ELSE <<Shown("G", LInt(66), FALSE), Shown("P", LInt(9131), FALSE)>>
             \o F("R") \o F("Z")
             \o (IF nonzero("S") THEN F("S") ELSE <<>>)
             \o (IF nonzero("T") THEN F("T") ELSE <<>>)
             \o GroupsShown(tool_data.dynamic_params,
                            Get(tool_data, "initial_dynamic", <<>>), 1)

\* The context lines (from 0) around the active line, each with whether
\* its S word is shown in red.
ContextShown(self, tool_data) ==
    LET start_line == Max(0, tool_data.line_index - ContextLines)
        end_line == Min(Len(self.nc_lines),
                        tool_data.line_index + 1 + ContextLines)
    IN  [i \in (start_line..(end_line - 1)) \ {tool_data.line_index} |->
            [text |-> self.nc_lines[i + 1],
             red_s |-> IsRpmModified(tool_data) /\ i = tool_data.rpm_line]]

\* A faulty variant of generate_html: the rendering takes the current
\* parameters as the new initial ones.
generate_html_SyncsInitial(self, data_index) ==
    IF BadIndex(self, data_index)
    THEN [self |-> self, ret |-> [active |-> <<>>, context |-> <<>>]]
    ELSE [self |-> [self EXCEPT !.tools_data[data_index + 1].initial_static =
                                    self.tools_data[data_index + 1].static_params],
          ret |-> [active |-> ActiveParts(self.tools_data[data_index + 1]),
                   context |-> ContextShown(self,
                                   self.tools_data[data_index + 1])]]

\* generate_html(data_index) on the parser state self: the state after the
\* call and the rendering returned.
generate_html(self, data_index) ==
    IF BadIndex(self, data_index)
    THEN [self |-> self, ret |-> [active |-> <<>>, context |-> <<>>]]
    ELSE [self |-> self,
          ret |-> [active |-> ActiveParts(self.tools_data[data_index + 1]),
                   context |-> ContextShown(self,
                                   self.tools_data[data_index + 1])]]

\* The programs SpecView loads.
ViewPaths == {"a", "c"}

\* What a record captured at parse time.
Snapshot(tool_data) ==
    [initial_static |-> tool_data.initial_static,
     initial_dynamic |-> tool_data.initial_dynamic,
     initial_use_ijk_mode |-> Get(tool_data, "initial_use_ijk_mode", FALSE)]

\* probe.html is what the last call returned when it was generate_html.
ViewInit ==
    /\ Parked
    /\ probe = [pc |-> "view", snapshot |-> <<>>, html |-> <<>>]

ViewParseFile(path) ==
    \E r \in {parse_file(Self, fs, path)} :
        /\ Becomes(r.self)
        /\ last_call' = Call("parse_file", path, -1, 0, r.ret)
        /\ loaded' = r.self.nc_lines
        /\ edited' = {}
        /\ probe' = [probe EXCEPT
                        !.snapshot = [j \in 1..Len(r.self.tools_data) |->
                                         Snapshot(r.self.tools_data[j])],
                        !.html = <<>>]
        /\ UNCHANGED fs

ViewUpdateG66Line(data_index, new_static, new_dynamic_list) ==
    \E r \in {update_g66_line(Self, data_index, new_static, new_dynamic_list)} :
        /\ Becomes(r.self)
        /\ last_call' = Call("update_g66_line", "", data_index, 0, r.ret)
        /\ edited' = IF r.ret = "True" THEN edited \cup {data_index} ELSE edited
        /\ probe' = [probe EXCEPT !.html = <<>>]
        /\ UNCHANGED <<fs, loaded>>

ViewUpdateSpindleSpeed(data_index, new_rpm) ==
    \E r \in {update_spindle_speed(Self, data_index, new_rpm)} :
        /\ Becomes(r.self)
        /\ last_call' = Call("update_spindle_speed", "", data_index, new_rpm, r.ret)
        /\ edited' = IF r.ret = "True" THEN edited \cup {data_index} ELSE edited
        /\ probe' = [probe EXCEPT !.html = <<>>]
        /\ UNCHANGED <<fs, loaded>>

GenerateHtml(data_index) ==
    \E r \in {generate_html(Self, data_index)} :
        /\ Becomes(r.self)
        /\ last_call' = Call("generate_html", "", data_index, 0, "ok")
        /\ probe' = [probe EXCEPT !.html = r.ret]
        /\ UNCHANGED <<fs, loaded, edited>>

ViewNext ==
    \/ \E path \in ViewPaths : ViewParseFile(path)
    \/ \E i \in Indexes, ns \in StaticInputs, nd \in DynamicInputs :
           ViewUpdateG66Line(i, ns, nd)
    \/ \E i \in Indexes, rpm \in RpmInputs : ViewUpdateSpindleSpeed(i, rpm)
    \/ \E i \in Indexes : GenerateHtml(i)

SpecView == ViewInit /\ [][ViewNext]_vars

\* C14: after any sequence of update_g66_line, update_spindle_speed and
\* generate_html calls every record's initial_static, initial_dynamic and
\* initial_use_ijk_mode are the values captured at parse time, and
\* generate_html changes neither the records nor the program text.
C14_InitialSnapshotsKept ==
    [][/\ Len(tools_data') = Len(probe'.snapshot)
       /\ \A j \in 1..Len(tools_data') :
              Snapshot(tools_data'[j]) = probe'.snapshot[j]
       /\ last_call'.op = "generate_html" =>
              UNCHANGED <<nc_lines, tools_data, tool_diameters>>]_vars

\* C14 witness: a record whose current parameters differ from its initial
\* ones has just been rendered, with a changed value shown in red.
C14_Witness ==
    /\ last_call.op = "generate_html"
    /\ last_call.idx >= 0 /\ last_call.idx < Len(tools_data)
    /\ tools_data[last_call.idx + 1].static_params
           # tools_data[last_call.idx + 1].initial_static
    /\ tools_data[last_call.idx + 1].initial_static
           = probe.snapshot[last_call.idx + 1].initial_static
    /\ \E n \in 1..Len(probe.html.active) : probe.html.active[n].red

\* C15: the records of a loaded program lie in strictly increasing
\* line_index order (so no two share a line_index), and neither
\* update_g66_line nor update_spindle_speed changes a record's line_index.
C15_LineIndexUniqueStable ==
    [][/\ \A j, k \in 1..Len(tools_data') :
              j < k => tools_data'[j].line_index < tools_data'[k].line_index
       /\ last_call'.op \in {"update_g66_line", "update_spindle_speed"} =>
              /\ Len(tools_data') = Len(tools_data)
              /\ \A j \in 1..Len(tools_data) :
                     tools_data'[j].line_index = tools_data[j].line_index]_vars

\* C15 witness: a program with two records, one of them rewritten.
C15_Witness ==
    /\ last_call.op = "update_g66_line"
    /\ last_call.ret = "True"
    /\ Len(tools_data) = 2
    /\ tools_data[1].line_index < tools_data[2].line_index
    /\ nc_lines # loaded

\* ------------------------------------------------------ the scan loop alone

\* The longest program of SpecScan, in lines.
MaxLines == 3

\* The lines the programs of SpecScan are made of: two spindle lines, a tool
\* change, a macro cycle whose approach height reads "S5.", a fixed cycle,
\* and a macro cycle whose dwell time reads "T2".
ScanPool ==
    { <<W("M", LInt(3)), W("S", LInt(8000))>>,
      <<W("S", LInt(1200)), W("M", LInt(3))>>,
      <<W("T", LInt(10)), W("M", LInt(6)), W("D", LDot(FALSE, 6))>>,
      <<W("G", LInt(66)), W("P", LInt(9131)), W("R", Neg(-1, 2, 1)),
        W("Z", Neg(2, 9, 1)), W("S", LDot(FALSE, 5)),
        W("I", LDot(TRUE, 1)), W("J", Dec(0, 2, 1)), W("K", LDot(FALSE, 50))>>,
      <<W("G", LInt(83)), W("Z", LDot(TRUE, 3)), W("R", LDot(FALSE, 0)),
        W("Q", LDot(FALSE, 1)), W("F", LInt(100))>>,
      <<W("G", LInt(66)), W("P", LInt(9131)), W("R", Neg(-1, 2, 1)),
        W("Z", Neg(2, 9, 1)), W("T", LInt(2)),
        W("I", LDot(TRUE, 1)), W("J", Dec(0, 2, 1)), W("K", LDot(FALSE, 50))>> }

ScanPrograms == UNION {[1..n -> ScanPool] : n \in 1..MaxLines}

ScanPath == "scan"

ScanInit ==
    /\ Parked
    /\ \E p \in ScanPrograms :
           probe = [pc |-> "file", lines |-> p, tools_data |-> <<>>,
                    ret |-> ""]

\* parse_file on the program.
ScanParseFile ==
    /\ probe.pc = "file"
    /\ \E r \in {parse_file(Self, ScanPath :> probe.lines, ScanPath)} :
           probe' = [probe EXCEPT !.pc = "parsed",
                                  !.tools_data = r.self.tools_data,
                                  !.ret = r.ret]
    /\ StayParked

ScanNext == ScanParseFile

SpecScan == ScanInit /\ [][ScanNext]_vars

IsMacroLine(line) == Contains(line, "G", 66) /\ Contains(line, "P", 9131)

\* C16: every record parse_file produces has its rpm and rpm_line either at
\* their initial 0 and -1, or from an S<digits> word of a line up to the
\* record's own that is not a macro-cycle line; rpm_line is never the index
\* of a macro-cycle line.
C16_MacroSNeverRpm ==
    probe.pc = "parsed" =>
        \A j \in 1..Len(probe.tools_data) :
            LET d == probe.tools_data[j]
            IN  \/ d.rpm_line = -1 /\ d.rpm = 0
                \/ /\ d.rpm_line \in 0..d.line_index
                   /\ ~IsMacroLine(probe.lines[d.rpm_line + 1])
                   /\ \E i \in 1..Len(probe.lines[d.rpm_line + 1]) :
                          LET w == probe.lines[d.rpm_line + 1][i]
                          IN  /\ w.k = "S"
                              /\ HasLeadingDigits(w.lit)
                              /\ d.rpm = w.lit.ip

\* C16 witness: a spindle line, then a macro cycle with its own S word, then
\* a fixed cycle; both records carry the spindle line's speed.
C16_Witness ==
    /\ probe.pc = "parsed"
    /\ Len(probe.lines) = 3
    /\ IsMacroLine(probe.lines[2])
    /\ Len(probe.tools_data) = 2
    /\ \A j \in 1..2 : /\ probe.tools_data[j].rpm_line = 0
                       /\ probe.tools_data[j].rpm = 1200

\* ------------------------------------------- the X and Y of a fixed cycle

\* Coordinate literals: "10.", "-0.5", "12.34567", "100.0001".
XYCoords ==
    {LDot(FALSE, 10), Neg(0, 5, 1), Dec(12, 34567, 5), Dec(100, 1, 4)}

\* G83 [X..] [Y..] Z-3. R0. Q1. F100
XYLines ==
    {<<W("G", LInt(83))>> \o x \o y \o
     <<W("Z", LDot(TRUE, 3)), W("R", LDot(FALSE, 0)), W("Q", LDot(FALSE, 1)),
       W("F", LInt(100))>> :
        x \in {<<>>} \cup {<<W("X", l)>> : l \in XYCoords},
        y \in {<<>>} \cup {<<W("Y", l)>> : l \in XYCoords}}

XYPath == "xy"

XYInit ==
    /\ \E line \in XYLines : fs = (XYPath :> <<line>>)
    /\ probe = [pc |-> "file"]
    /\ nc_lines = <<>>
    /\ tools_data = <<>>
    /\ tool_diameters = <<>>
    /\ last_call = Call("init", "", -1, 0, "ok")
    /\ loaded = <<>>
    /\ edited = {}

XYParseFile ==
    /\ probe.pc = "file"
    /\ \E r \in {parse_file(Self, fs, XYPath)} :
           /\ Becomes(r.self)
           /\ last_call' = Call("parse_file", XYPath, -1, 0, r.ret)
           /\ loaded' = r.self.nc_lines
    /\ probe' = [pc |-> "parsed"]
    /\ UNCHANGED <<fs, edited>>

XYUpdateG66Line(new_static, new_dynamic_list) ==
    /\ probe.pc = "parsed"
    /\ \E r \in {update_g66_line(Self, 0, new_static, new_dynamic_list)} :
           /\ Becomes(r.self)
           /\ last_call' = Call("update_g66_line", "", 0, 0, r.ret)
    /\ edited' = {0}
    /\ probe' = [pc |-> "rewritten"]
    /\ UNCHANGED <<fs, loaded>>

XYNext ==
    \/ XYParseFile
    \/ \E ns \in StaticInputs, nd \in DynamicInputs : XYUpdateG66Line(ns, nd)

SpecXY == XYInit /\ [][XYNext]_vars

\* The values the words of letter k carry in a line.
ValuesOf(line, k) ==
    {LitValue(line[i].lit) : i \in {j \in 1..Len(line) : line[j].k = k}}

\* C17: after update_g66_line on a fixed-cycle record the rewritten line
\* carries the X and the Y value of the line as loaded, exactly, and neither
\* word when the loaded line had none.
C17_XYKeptExactly ==
    probe.pc = "rewritten" =>
        \A k \in {"X", "Y"} : ValuesOf(nc_lines[1], k) = ValuesOf(loaded[1], k)

\* ------------------------------------------ rewrite a macro line and save

\* The sample of test_parser.py and the one-line macro programs.
SavePrograms == {ProgA} \cup {<<line>> : line \in RTMacroLines}

SaveIn == "in"

SaveOut == "out"

SaveInit ==
    /\ \E p \in SavePrograms : fs = (SaveIn :> p)
    /\ probe = [pc |-> "file", new_static |-> <<>>, new_dynamic_list |-> <<>>]
    /\ nc_lines = <<>>
    /\ tools_data = <<>>
    /\ tool_diameters = <<>>
    /\ last_call = Call("init", "", -1, 0, "ok")
    /\ loaded = <<>>
    /\ edited = {}

SaveParseFile ==
    /\ probe.pc = "file"
    /\ \E r \in {parse_file(Self, fs, SaveIn)} :
           /\ Becomes(r.self)
           /\ last_call' = Call("parse_file", SaveIn, -1, 0, r.ret)
           /\ loaded' = r.self.nc_lines
    /\ probe' = [probe EXCEPT !.pc = "parsed"]
    /\ UNCHANGED <<fs, edited>>

\* update_g66_line on the first record, the macro record of each program.
SaveUpdateG66Line(new_static, new_dynamic_list) ==
    /\ probe.pc = "parsed"
    /\ \E r \in {update_g66_line(Self, 0, new_static, new_dynamic_list)} :
           /\ Becomes(r.self)
           /\ last_call' = Call("update_g66_line", "", 0, 0, r.ret)
    /\ edited' = {0}
    /\ probe' = [pc |-> "rewritten", new_static |-> new_static,
                 new_dynamic_list |-> new_dynamic_list]
    /\ UNCHANGED <<fs, loaded>>

SaveFile ==
    /\ probe.pc = "rewritten"
    /\ fs' = save_file(Self, fs, SaveOut)
    /\ last_call' = Call("save_file", SaveOut, -1, 0, "ok")
    /\ probe' = [probe EXCEPT !.pc = "saved"]
    /\ UNCHANGED <<nc_lines, tools_data, tool_diameters, loaded, edited>>

\* new_static with a null R, with a dwell T and no S, with null S and T.
OrderStatic ==
    { [R |-> None, Z |-> Some(-3 * One), S |-> Some(500000),
       T |-> Some(2000000)],
      [R |-> Some(-5000000), Z |-> Some(-3 * One), T |-> Some(2 * One)],
      [R |-> Some(-5000000), Z |-> Some(-3 * One), S |-> None, T |-> None] }

\* new_dynamic_list with a group at the tolerance before a written one, and
\* with a group that has only an I before one below the tolerance.
OrderDynamic ==
    { <<Stage(0, Tol, 0), Stage(-15000000, 1000000, 20 * One)>>,
      <<[I |-> -One], Stage(5, 0, 0)>> }

SaveNext ==
    \/ SaveParseFile
    \/ \E ns \in StaticInputs \cup OrderStatic,
          nd \in DynamicInputs \cup OrderDynamic : SaveUpdateG66Line(ns, nd)
    \/ SaveFile

SpecSave == SaveInit /\ [][SaveNext]_vars

\* The words R, Z, S of new_static and one I J K triple per entry of the
\* list, every value in decimal form.
RECURSIVE DecimalTriples(_, _)
DecimalTriples(list, n) ==
    IF n > Len(list) THEN <<>>
    ELSE <<W("I", Str(list[n].I)), W("J", Str(list[n].J)),
           W("K", Str(list[n].K))>> \o DecimalTriples(list, n + 1)

DecimalLine(new_static, new_dynamic_list) ==
    <<W("G", LInt(66)), W("P", LInt(9131)),
      W("R", Str(Val(new_static.R))), W("Z", Str(Val(new_static.Z))),
      W("S", Str(Val(new_static.S)))>>
    \o DecimalTriples(new_dynamic_list, 1)

\* C18: after update_g66_line on a macro record with R, Z and S and a
\* dynamic list, and save_file, the written file has at the record's line
\* G66 P9131, then R, Z, S, then one I J K triple for every entry of the list
\* in list order, all-zero entries included, each value in decimal form.
C18_SavedLineHasEveryTriple ==
    (probe.pc = "saved" /\ DOMAIN probe.new_static = {"R", "Z", "S"}) =>
        fs[SaveOut][tools_data[1].line_index + 1]
            = DecimalLine(probe.new_static, probe.new_dynamic_list)

\* ------------------------------------------ the peck simulator, run to end

\* _g83_to_ijk is sequential code: once called, it keeps taking its next
\* step.
SpecPeckFair == SpecPeck /\ WF_vars(PeckNext)

\* The distance to Z of the target depth of stage n of a list (R - J); the
\* R point for n = 0.
DistanceLeft(params, list, n) ==
    Abs(Val(params.Z) - (IF n = 0 THEN Val(params.R)
                         ELSE Val(params.R) - list[n].J))

\* Every stage target is strictly closer to Z than the one before it (the R
\* point before the first), and on the R side of Z or at Z.
StagesApproach(params, list) ==
    \A n \in 1..Len(list) :
        /\ DistanceLeft(params, list, n) < DistanceLeft(params, list, n - 1)
        /\ IF Val(params.Z) < Val(params.R)
           THEN Val(params.R) - list[n].J >= Val(params.Z)
           ELSE Val(params.R) - list[n].J <= Val(params.Z)

\* C19: for every input, in either mode and direction, _g83_to_ijk
\* terminates, and in the list it builds and returns each stage's target
\* depth is strictly closer to Z than the previous target and never passes Z.
C19_TerminatesApproaching ==
    /\ [](/\ StagesApproach(probe.params, probe.st.ijk_list)
          /\ StagesApproach(probe.params, probe.result))
    /\ <>(probe.pc = "done")

\* C19 witness: variable mode with J >= I and K = 0 (R = 0, Z = -3, I = 1.5,
\* J = 2) has returned, with its one stage at depth 1.5.
C19_Witness ==
    /\ probe.pc = "done"
    /\ probe.use_ijk_mode
    /\ probe.params.R = Some(0)
    /\ probe.params.Z = Some(-3 * One)
    /\ probe.params.I = Some(15000000)
    /\ probe.params.J = Some(2 * One)
    /\ probe.params.K = Some(0)
    /\ probe.result = <<Stage(-15000000, 15000000, 0)>>

\* The depth drilled by the first n stages of a list.
RECURSIVE DepthAfter(_, _)
DepthAfter(list, n) ==
    IF n = 0 THEN 0 ELSE Abs(list[n].I) + DepthAfter(list, n - 1)

\* C20: in variable mode with |I| > 1e-6 the returned list ends within 1e-6
\* of Z: stage n advances by max(|I| - (n-1)|J|, |K|) clamped to the
\* remaining distance, and the increments sum to |Z-R|, whatever J and K.
C20_VariablePeckReachesBottom ==
    LET i == Abs(Val(probe.params.I))
        j == Abs(Val(probe.params.J))
        k == Abs(Val(probe.params.K))
        depth == Abs(Val(probe.params.Z) - Val(probe.params.R))
        list == probe.result
    IN  (probe.pc = "done" /\ probe.use_ijk_mode /\ i > Tol) =>
            /\ \A n \in 1..Len(list) :
                   Abs(list[n].I) =
                       Min(Max(i - (n - 1) * j, k),
                           depth - DepthAfter(list, n - 1))
            /\ Abs(depth - DepthAfter(list, Len(list))) <= Tol

\* ------------------------------------------------ the order of the fields

StaticLetters == <<"R", "Z", "S", "T">>

\* The words of a line after the first two whose letter is R, Z, S or T.
StaticWords(line) ==
    SelectSeq(SubSeq(line, 3, Len(line)),
              LAMBDA w : \E r \in 1..4 : w.k = StaticLetters[r])

Rank(k) == CHOOSE r \in 1..4 : StaticLetters[r] = k

\* One I J K triple per group that is not all within 1e-6 of zero.
RECURSIVE WrittenTriples(_, _)
WrittenTriples(list, n) ==
    IF n > Len(list) THEN <<>>
    ELSE (IF \A k \in IJKKeys : Abs(Get(list[n], k, 0)) <= Tol
          THEN <<>>
          ELSE <<W("I", fmt(Get(list[n], "I", 0))),
                 W("J", fmt(Get(list[n], "J", 0))),
                 W("K", fmt(Get(list[n], "K", 0)))>>)
         \o WrittenTriples(list, n + 1)

FixedDepths == {Neg(4, 5, 1), Neg(1, 5, 1), LDot(FALSE, 0), Neg(-1, 1, 6)}

\* Nothing, Q0, Q.000001, Q.0000005, Q1., Q-2.
FixedQ ==
    {<<>>} \cup {<<W("Q", l)>> :
        l \in {LInt(0), Dec(-1, 1, 6), Dec(-1, 5, 7), LDot(FALSE, 1),
               LDot(TRUE, 2)}}

\* Nothing, I0, I1.5, I.000001
FixedI ==
    {<<>>} \cup {<<W("I", l)>> : l \in {LInt(0), Dec(1, 5, 1), Dec(-1, 1, 6)}}

\* Nothing, J.2
FixedJ == {<<>>, <<W("J", Dec(-1, 2, 1))>>}

\* Nothing, K0, K.5
FixedK == {<<>>} \cup {<<W("K", l)>> : l \in {LInt(0), Dec(-1, 5, 1)}}

\* G83 Z.. R0. [I..] [J..] [K..] [Q..] F100
FixedLines ==
    {<<W("G", LInt(83)), W("Z", z), W("R", LDot(FALSE, 0))>>
        \o i \o j \o k \o q \o <<W("F", LInt(100))>> :
        z \in FixedDepths, i \in FixedI, j \in FixedJ, k \in FixedK,
        q \in FixedQ}

FixedTool == 1

\* tool_diameters at the line: empty, 6.0 for the tool, 0.00005 for the tool.
FixedDiameters == {<<>>, FixedTool :> 6 * One, FixedTool :> 500}

FixedInit ==
    /\ Parked
    /\ \E line \in FixedLines, dia \in FixedDiameters :
           probe = [pc |-> "line", line |-> line, tool_diameters |-> dia,
                    tools_data |-> <<>>]

\* The cycle detection of parse_file on the line, the tool being current.
FixedDetectCycle ==
    /\ probe.pc = "line"
    /\ \E st \in {DetectCycle(probe.line, 0,
                      [ScanStart EXCEPT
                          !.current_tool = FixedTool,
                          !.tool_diameters = probe.tool_diameters])} :
           probe' = [probe EXCEPT
                        !.pc = IF st.raised = "none" THEN "parsed"
                               ELSE "raised",
                        !.tools_data = st.tools_data]
    /\ StayParked

FixedNext == FixedDetectCycle

SpecFixed == FixedInit /\ [][FixedNext]_vars

\* The line states a number for the letter k.
Stated(line, k) == \E n \in 1..Len(line) : IsKeyWord(line[n], {k})

\* The number the line states for the letter k (the last, if several).
StatedValue(line, k) ==
    LitValue(line[CHOOSE n \in 1..Len(line) :
                      /\ IsKeyWord(line[n], {k})
                      /\ \A m \in (n + 1)..Len(line) :
                             ~IsKeyWord(line[m], {k})].lit)

\* C22: for a fixed-cycle line with neither I nor K, use_ijk_mode is false,
\* a Q of magnitude >= 1e-6 is kept, and a Q that is absent or smaller
\* becomes min(1.0, |Z-R|/3) when |Z-R| > 0 and 1.0 otherwise; a line with
\* I or K has use_ijk_mode true unless I and K are both below 1e-6 in
\* magnitude after defaulting.
C22_FixedCycleDefaults ==
    probe.pc = "parsed" =>
        LET line == probe.line
            d == probe.tools_data[1]
            depth == Abs(StatedValue(line, "Z") - StatedValue(line, "R"))
            q == Val(d.static_params.Q)
        IN  IF ~Stated(line, "I") /\ ~Stated(line, "K")
            THEN /\ ~d.use_ijk_mode
                 /\ IF Stated(line, "Q") /\ Abs(StatedValue(line, "Q")) >= Tol
                    THEN q = StatedValue(line, "Q")
                    ELSE IF depth >= 3 * One \/ depth = 0 THEN q = One
                    ELSE 3 * q <= depth /\ depth < 3 * q + 3
            ELSE d.use_ijk_mode <=>
                     ~(/\ Abs(Val(d.static_params.I)) < Tol
                       /\ Abs(Val(d.static_params.K)) < Tol)

\* C22 witness: 'G83 Z-1.5 R0. F100' has been given Q = 0.5 in constant
\* mode.
C22_Witness ==
    /\ probe.pc = "parsed"
    /\ probe.line = <<W("G", LInt(83)), W("Z", Neg(1, 5, 1)),
                      W("R", LDot(FALSE, 0)), W("F", LInt(100))>>
    /\ ~probe.tools_data[1].use_ijk_mode
    /\ probe.tools_data[1].static_params.Q = Some(5000000)

\* ------------------------------------------------- the diameter window

\* The length of the programs of SpecWindow, in lines: a tool change in the
\* middle has lines outside its window on both sides.
WindowLines == 23

\* The D words a line may carry: D0, D6., D3.5, and D0 followed by D2.
WindowWords ==
    { <<W("D", LInt(0))>>, <<W("D", LDot(FALSE, 6))>>,
      <<W("D", Dec(3, 5, 1))>>, <<W("D", LInt(0)), W("D", LDot(FALSE, 2))>> }

WindowTool == 1

\* A program with the tool change at index idx and D words on the lines at
\* indexes p1 and p2 (on one line when p1 = p2).
WindowProgram(idx, p1, d1, p2, d2) ==
    [n \in 1..WindowLines |->
        (IF n = idx + 1 THEN <<W("T", LInt(WindowTool)), W("M", LInt(6))>>
         ELSE <<W("G", LInt(0))>>)
        \o (IF n = p1 + 1 THEN d1 ELSE <<>>)
        \o (IF n = p2 + 1 /\ p2 # p1 THEN d2 ELSE <<>>)]

\* The tool change on the first line, in the middle, on the last line.
WindowIndexes == {0, WindowLines \div 2, WindowLines - 1}

WindowInit ==
    /\ Parked
    /\ \E idx \in WindowIndexes, d1 \in WindowWords, d2 \in WindowWords,
          known \in {<<>>, WindowTool :> 9 * One} :
         \E p1 \in 0..(WindowLines - 1) : \E p2 \in p1..(WindowLines - 1) :
           probe = [pc |-> "line", idx |-> idx,
                    lines |-> WindowProgram(idx, p1, d1, p2, d2),
                    known |-> known, tool_diameters |-> known,
                    current_tool |-> Unknown]

\* Lines 47-54 of parse_file on the tool-change line.
WindowTrackTool ==
    /\ probe.pc = "line"
    /\ \E st \in {TrackTool(probe.lines, probe.idx,
                      [ScanStart EXCEPT !.tool_diameters = probe.known])} :
           probe' = [probe EXCEPT !.pc = "tracked",
                                  !.tool_diameters = st.tool_diameters,
                                  !.current_tool = st.current_tool]
    /\ StayParked

WindowNext == WindowTrackTool

SpecWindow == WindowInit /\ [][WindowNext]_vars

\* The strictly positive D values of a line, by word position.
PositiveD(line) ==
    {n \in 1..Len(line) :
        line[n].k = "D" /\ ~line[n].lit.neg /\ LitValue(line[n].lit) > 0}

\* The line indexes within 10 of idx that carry a strictly positive D.
WindowHits(lines, idx) ==
    {n \in 0..(Len(lines) - 1) :
        /\ idx - 10 <= n
        /\ n <= idx + 10
        /\ PositiveD(lines[n + 1]) # {}}

\* C23: at a tool change on line i the diameter recorded for the tool is the
\* first strictly positive D value on the lines max(0, i-10)..min(last, i+10)
\* in ascending order, zero values and lines outside the window being
\* ignored; when there is none, the map is left as it was.
C23_DiameterWindow ==
    probe.pc = "tracked" =>
        LET hits == WindowHits(probe.lines, probe.idx)
            first == CHOOSE n \in hits : \A m \in hits : n <= m
            line == probe.lines[first + 1]
            word == CHOOSE n \in PositiveD(line) :
                        \A m \in PositiveD(line) : n <= m
        IN  /\ probe.current_tool = WindowTool
            /\ IF hits = {}
               THEN probe.tool_diameters = probe.known
               ELSE probe.tool_diameters
                        = (WindowTool :> LitValue(line[word].lit))

\* C23 witness: the tool change on line 11 of 23, D6. on line 0 and D3.5 on
\* line 21, the tool known with 9.0 before: the diameter is now 3.5.
C23_Witness ==
    /\ probe.pc = "tracked"
    /\ probe.idx = 11
    /\ probe.lines[1] = <<W("G", LInt(0)), W("D", LDot(FALSE, 6))>>
    /\ probe.lines[22] = <<W("G", LInt(0)), W("D", Dec(3, 5, 1))>>
    /\ probe.known = (WindowTool :> 9 * One)
    /\ probe.tool_diameters = (WindowTool :> 35000000)

\* --------------------------------------------------- parameter optimizer
\*
\* calculate_optimized_params without a config object and with the default
\* exit_chamfer = 0.0 (the chamfer block of lines 288-296 is skipped).  The
\* units of this part: diameters in hundredths of a millimetre, depths in
\* millionths, L/D ratios in hundred-thousandths, Q, I, J, K in
\* ten-thousandths, the DRI in hundredths, speeds in RPM.  F, life_index and
\* score, which no decision of the function reads, are left out.

\* The tenths t with t^5 = ratio: the ratios used are fifth powers, for which
\* ratio ** 1.4 is t^7.
FifthRoot(ratio) ==
    CHOOSE t \in 0..21 : t * t * t * t * t = ratio

\* r_ratio ** 1.4, in hundredths.
Pow14(ratio) ==
    LET t == FifthRoot(ratio)
        t3 == t * t * t
    IN  (t3 * t3 * t) \div 100000

\* depth / tool_dia
LdRatio(diameter, depth) == (depth * 10) \div diameter

\* calculate_dri(diameter, depth, ...) with every risk factor at 1.0.
calculate_dri(diameter, depth) ==
    IF diameter <= 0 THEN Dri(NoDiameterDri)
    ELSE 120 + Pow14(LdRatio(diameter, depth))

\* round(diameter * factor, 3) as ten-thousandths; factor in
\* hundred-thousandths.
SensRound(diameter, factor) == (RoundTo(diameter * factor, 10000) \div 10000) * 10

\* get_ld_sens_ijk(diameter, ld_ratio)
get_ld_sens_ijk(diameter, ld_ratio) ==
    LET r == Min(ld_ratio, 1000000)
        i_factor == Max(40000, Min(120000, 120000 - (8 * r) \div 100))
        j_factor == Max(4000, Min(18000, 18000 - r \div 100))
        k_factor == Max(8000, Min(25000, 25000 - r \div 100))
    IN  [I |-> SensRound(diameter, i_factor),
         J |-> SensRound(diameter, j_factor),
         K |-> SensRound(diameter, k_factor)]

\* mat_data['Vc'] of the fallback material data.
FallbackVc == 50

\* speed_ratio of a tool material, in hundredths (unknown keys are CARBIDE).
SpeedRatio(tool_mat_key) == IF tool_mat_key = "HSS" THEN 40 ELSE 100

\* s_calc = vc_final * 1000 / (pi * tool_dia), vc_final being Vc times the
\* speed ratio divided by 1 + 0.035 * ld_ratio; pi as 355/113, the quotient
\* cut to whole RPM.
SCalc(diameter, ld_ratio, tool_mat_key) ==
    LET num == (FallbackVc * SpeedRatio(tool_mat_key) * 10 * 113 * 100) \div 355
        den == (diameter * (100000 + (35 * ld_ratio) \div 1000)) \div 100
    IN  (num * 1000) \div den

InHighTier(strategy) == strategy \in {"IJK_DYNAMIC", "DEEP_PROTECT"}

\* min_q without a config.
MinQ == 500

\* A faulty variant of FinalUseIjk: a preference of False is taken as none.
FinalUseIjk_FalseIsNone(prefer_ijk, strategy) ==
    IF ~IsNone(prefer_ijk) /\ Val(prefer_ijk) THEN TRUE
    ELSE InHighTier(strategy)

\* Line 348: prefer_ijk if prefer_ijk is not None else (strategy in [...]).
FinalUseIjk(prefer_ijk, strategy) ==
    IF ~IsNone(prefer_ijk) THEN Val(prefer_ijk) ELSE InHighTier(strategy)

\* The result dictionary as lines 262-267 create it.
EmptyResult(target_z) ==
    [S |-> 0, Q |-> 0, I |-> 0, J |-> 0, K |-> 0, Z |-> target_z,
     use_ijk |-> FALSE, messages |-> <<>>, dri |-> 0, strategy |-> ""]

\* calculate_optimized_params(tool_dia, target_z, material_key,
\* tool_mat_key, max_rpm, current_s, prefer_ijk=prefer_ijk); the messages
\* are held by their kind.
calculate_optimized_params(tool_dia, target_z, tool_mat_key, max_rpm, current_s, prefer_ijk) ==
    IF tool_dia <= 0
    THEN [EmptyResult(target_z) EXCEPT !.messages = <<"error">>]
    ELSE
    LET depth == Abs(target_z)
        ld_ratio == LdRatio(tool_dia, depth)
        dri == calculate_dri(tool_dia, depth)
        strategy == select_strategy(dri)
        s_calc == SCalc(tool_dia, ld_ratio, tool_mat_key)
        s_target == IF current_s > 0 THEN current_s ELSE Min(s_calc, max_rpm)
        final_use_ijk == FinalUseIjk(prefer_ijk, strategy)
        ijk == get_ld_sens_ijk(tool_dia, ld_ratio)
        deep == strategy = "DEEP_PROTECT"
    IN  [S |-> s_target,
         Q |-> IF final_use_ijk \/ (strategy = "DIRECT" /\ dri < Dri(4))
               THEN 0
               ELSE Max(tool_dia * 80, MinQ),
         I |-> IF ~final_use_ijk THEN 0
               ELSE IF deep THEN (ijk.I * 8) \div 10 ELSE ijk.I,
         J |-> IF final_use_ijk THEN ijk.J ELSE 0,
         K |-> IF ~final_use_ijk THEN 0
               ELSE IF deep THEN (ijk.K * 8) \div 10 ELSE ijk.K,
         Z |-> target_z,
         use_ijk |-> final_use_ijk,
         messages |->
             <<"risk">>
             \o (IF current_s > 0 THEN <<"fixed_speed">>
                 ELSE (IF s_calc > max_rpm THEN <<"speed_limited">> ELSE <<>>)
                      \o <<"speed_factor">>)
             \o (IF tool_dia < 100 THEN <<"micro_drill">> ELSE <<>>)
             \o (IF ld_ratio > 300000 THEN <<"feed_factor">> ELSE <<>>)
             \o (IF ~final_use_ijk /\ InHighTier(strategy)
                 THEN <<"warning">> ELSE <<>>)
             \o (IF final_use_ijk /\ deep THEN <<"protect">> ELSE <<>>),
         dri |-> RoundTo(dri, 10),
         strategy |-> strategy]

\* Tool diameters 0, 0.1, 1.0, 2.0.
OptDiameters == {0, 10, 100, 200}

\* The tenths whose fifth power is the L/D ratio: DRI 1.2, 2.2, 4.78, 7.47,
\* 18.29, 42.23.
OptRoots == {0, 10, 12, 13, 15, 17}

OptSpeeds == {0, 8000, 50000}

OptCeilings == {10000, 40000}

OptInputs ==
    {[tool_dia |-> d, target_z |-> -((t * t * t * t * t * d) \div 10),
      tool_mat_key |-> m, max_rpm |-> c, current_s |-> cs, prefer_ijk |-> p] :
        d \in OptDiameters, t \in OptRoots, m \in {"CARBIDE", "HSS"},
        c \in OptCeilings, cs \in OptSpeeds,
        p \in {None, Some(TRUE), Some(FALSE)}}

OptInit ==
    /\ Parked
    /\ \E c \in OptInputs : probe = [pc |-> "call", args |-> c, result |-> <<>>]

CalculateOptimizedParams ==
    /\ probe.pc = "call"
    /\ probe' = [probe EXCEPT
           !.pc = "returned",
           !.result = calculate_optimized_params(
                          probe.args.tool_dia, probe.args.target_z,
                          probe.args.tool_mat_key, probe.args.max_rpm,
                          probe.args.current_s, probe.args.prefer_ijk)]
    /\ StayParked

OptNext == CalculateOptimizedParams

SpecOpt == OptInit /\ [][OptNext]_vars

\* C24: whenever the strategy is Direct and the final mode is not
\* variable-peck, the result prescribes no peck: Q = 0 and I = J = K = 0.
C24_DirectMeansNoPeck ==
    (/\ probe.pc = "returned"
     /\ probe.result.strategy = "DIRECT"
     /\ ~probe.result.use_ijk) =>
        /\ probe.result.Q = 0
        /\ probe.result.I = 0
        /\ probe.result.J = 0
        /\ probe.result.K = 0

\* The mode follows the preference when one is given and the risk tier
\* otherwise, and the warning is among the messages exactly when the mode is
\* not variable-peck in one of the two highest tiers.
ModeAndWarning(args, result) ==
    /\ result.use_ijk = IF IsNone(args.prefer_ijk)
                        THEN InHighTier(result.strategy)
                        ELSE Val(args.prefer_ijk)
    /\ (\E n \in 1..Len(result.messages) : result.messages[n] = "warning")
           <=> (~result.use_ijk /\ InHighTier(result.strategy))

\* C25 as stated: for every call of calculate_optimized_params the result's
\* use_ijk equals prefer_ijk when one is supplied and otherwise is true
\* exactly for VariableDecayPeck and DeepProtect, and the warning is emitted
\* exactly when the final mode is not variable-peck in one of these tiers.
C25_ModeFollowsPreference_AnyDiameter ==
    probe.pc = "returned" => ModeAndWarning(probe.args, probe.result)

\* C25, amended: the same for every call with tool_dia > 0 (a diameter <= 0
\* returns the error result, whose use_ijk is False whatever the
\* preference).
C25_ModeFollowsPreference ==
    (probe.pc = "returned" /\ probe.args.tool_dia > 0) =>
        ModeAndWarning(probe.args, probe.result)

\* C25 witness: a preference for the constant mode in the DeepProtect tier:
\* the mode is constant and the warning is among the messages.
C25_Witness ==
    /\ probe.pc = "returned"
    /\ probe.args.prefer_ijk = Some(FALSE)
    /\ probe.result.strategy = "DEEP_PROTECT"
    /\ ~probe.result.use_ijk
    /\ \E n \in 1..Len(probe.result.messages) :
           probe.result.messages[n] = "warning"

\* C26: the spindle speed S of the result never exceeds max_rpm, also when
\* the caller supplies a current_s > 0.
C26_SpeedWithinCeiling ==
    probe.pc = "returned" => probe.result.S <= probe.args.max_rpm

\* The record's rpm_line is a line of the text.
HasRpmLine(tool_data) ==
    tool_data.rpm_line >= 0 /\ tool_data.rpm_line < Len(nc_lines)

\* C27: after parse_file and any update_spindle_speed and update_g66_line
\* calls, every record whose rpm_line is a line of the text has a stored rpm
\* equal to the number of the first S<digits> token of that line, records
\* that share the line with an updated record included.
C27_RpmMatchesLine ==
    \A n \in 1..Len(tools_data) :
        HasRpmLine(tools_data[n]) =>
            LET line == nc_lines[tools_data[n].rpm_line + 1]
                s == FirstDigitsWord(line, "S")
            IN  s # 0 /\ line[s].lit.ip = tools_data[n].rpm

\* C28: whenever update_spindle_speed returns True for new_rpm, the line at
\* the record's rpm_line then contains S<new_rpm>, also when that line is
\* the record's own fixed-cycle line rewritten by an earlier update_g66_line.
C28_TrueMeansWritten ==
    (last_call.op = "update_spindle_speed" /\ last_call.ret = "True") =>
        Contains(nc_lines[tools_data[last_call.idx + 1].rpm_line + 1],
                 "S", last_call.rpm)

\* C29: the fixed-cycle extraction never replaces a parameter the line
\* states with a magnitude of at least 1e-6: each of Q, I, J, K stated so
\* keeps its value in the record's static parameters, also when another
\* parameter is absent or zero and is given a synthesized default.
C29_StatedValuesKept ==
    probe.pc = "parsed" =>
        \A k \in {"Q", "I", "J", "K"} :
            (Stated(probe.line, k) /\ Abs(StatedValue(probe.line, k)) >= Tol)
                => Val(probe.tools_data[1].static_params[k])
                       = StatedValue(probe.line, k)

\* The lines up to the one at idx (from 0) that carry a T<digits> word and
\* are not macro-cycle lines.
ToolChangeLines(lines, idx) ==
    {j \in 0..idx : /\ ~IsMacroLine(lines[j + 1])
                    /\ FirstDigitsWord(lines[j + 1], "T") # 0}

\* The tool in force at the line at idx: the id of the last tool-change line
\* up to it, Unknown when there is none.
ToolInForce(lines, idx) ==
    LET changes == ToolChangeLines(lines, idx)
        last == CHOOSE j \in changes : \A m \in changes : m <= j
    IN  IF changes = {} THEN Unknown
        ELSE lines[last + 1][FirstDigitsWord(lines[last + 1], "T")].lit.ip

\* C30: each record's tool_id is the id of the most recent tool-change line
\* at or before the cycle's line, Unknown when there is none; the T word of
\* a macro-cycle line is its dwell time and changes no record's tool_id.
C30_ToolIdFromToolChange ==
    probe.pc = "parsed" =>
        \A n \in 1..Len(probe.tools_data) :
            probe.tools_data[n].tool_id
                = ToolInForce(probe.lines, probe.tools_data[n].line_index)

====
